---- MODULE Spec2Model ----
(***************************************************************************)
(* Outfit generation orchestration of chaodonghu/outfit-generator:         *)
(* the useOutfitGeneration hook (in-flight guard, hook cache, rate-limit   *)
(* admission, composite fallback) on top of the generator service          *)
(* (durable and in-memory cache tiers, provider retry loop with backoff).  *)
(* The three generator builds of the repository (Gemini SDK, Gemini        *)
(* through the fetch proxy, OpenAI describe-then-synthesize) are the       *)
(* values of `variant`.                                                    *)
(***************************************************************************)
EXTENDS Integers, Sequences, FiniteSets, TLC

----------------------------------------------------------------------------
(* Bounds of the model *)

\* generate calls issued in one behaviour (rejected ones included)
MaxStarts == 2
\* clock ticks in one behaviour
MaxTicks == 1
\* generate calls that may be suspended at an await at the same time
MaxPending == 2
\* generate calls issued in one behaviour of the limiter specification
MaxLimCalls == 14
\* time, in ms, that passes in one behaviour of the limiter specification
LimHorizonMs == 63000
\* generate calls issued in one behaviour of the retry specification
MaxRetryCalls == 1
\* generate calls issued in one behaviour of the cache-key specification
MaxKeyCalls == 2
\* calls of addClothingItem, cleanupOrphanedStorageFiles and
\* deleteClothingItem in one behaviour of the clothing-items specification
MaxAdds == 2
MaxCleanups == 1
MaxDeletes == 2
\* greatest length of a carousel's item list, and mounts of one carousel
MaxLength == 4
MaxMounts == 2

(* Program constants *)

\* const maxAttempts = 3 of every retry loop
maxAttempts == 3
\* rateLimiter.updateConfig({cooldownMs, maxCalls, windowMs}) in App
cooldownMs == 2000
maxCalls == 10
windowMs == 60000
\* backoff bases of the SDK build, fallbackMs of getRetryMsFromError
TimeoutBaseMs == 5000
QuotaBaseMs == 60000
RetryFallbackMs == 20000
\* prompt.length of buildPrompt() / buildPrompt(true), of transferPrompt and
\* of the fixed part of customPrompt
BuildPromptLen == 625
BuildPromptShoesLen == 650
TransferPromptLen == 425
NanoPromptFixedLen == 274
\* one clock tick, in ms: a cooldown
TickMs == cooldownMs
\* Date.now() when the page loads: later than one window after time 0
StartNow == 2 * windowMs

----------------------------------------------------------------------------
(* Values *)

DEFAULT_BODY_PATH == "/assets/model.png"
NoError == ""
NoId == ""
NoPath == ""

\* An image reference.  kind: "null" (no image), "data" (data URL of the image
\* produced by call n), "composite" (fallback image of call n), "storage"
\* (public URL of file outfit_<topId>_<bottomId>[_<shoeId>]_<t>.png).
Url(kind, n, topId, bottomId, shoeId, t) ==
  [kind |-> kind, n |-> n, topId |-> topId, bottomId |-> bottomId,
   shoeId |-> shoeId, t |-> t]
Null == Url("null", 0, NoId, NoId, NoId, 0)
DataUrl(n) == Url("data", n, NoId, NoId, NoId, 0)
CompositeUrl(n) == Url("composite", n, NoId, NoId, NoId, 0)
StorageUrl(topId, bottomId, shoeId, t) ==
  Url("storage", 0, topId, bottomId, shoeId, t)

\* ClothingItem {id, imageUrl}
Item(id, imageUrl) == [id |-> id, imageUrl |-> imageUrl]
NoItem == Item(NoId, NoPath)
Tops == {Item("t1", "top1.png")}
Bottoms == {Item("b1", "bottom1.png")}
\* NoItem: generateOutfit is called without shoes
Shoes == {NoItem, Item("s1", "shoe1.png")}
\* modelImageUrl argument: "" stands for undefined
Models == {NoPath}
Occasions == {"gym"}
\* inspiration File {name, size}; blob is the object URL created for it
Files == {[name |-> "look.png", size |-> 10]}

\* Errors a provider call rejects with.  code is the value of
\* err?.error?.code || err?.status || err?.code, status the value of
\* err?.error?.status || err?.statusMessage; retryDelay is the RetryInfo
\* detail as the regular expression of getRetryMsFromError splits it
\* ([sec, frac]), or NoRetryInfo.
NoRetryInfo == [sec |-> -1, frac |-> <<>>]
ProviderError(code, status, message, retryDelay) ==
  [code |-> code, status |-> status, message |-> message,
   retryDelay |-> retryDelay]
ErrQuota == ProviderError(429, "RESOURCE_EXHAUSTED", "quota exceeded", NoRetryInfo)
ErrTimeout == ProviderError(504, "DEADLINE_EXCEEDED", "Deadline expired", NoRetryInfo)
ErrFatal == ProviderError(400, "INVALID_ARGUMENT", "bad request", NoRetryInfo)
Errors == {ErrQuota, ErrTimeout, ErrFatal}
\* a quota error with RetryInfo retryDelay "7.5s", and a quota error whose
\* message mentions a timeout
ErrQuotaRetry ==
  ProviderError(429, "RESOURCE_EXHAUSTED", "quota exceeded",
                [sec |-> 7, frac |-> <<5>>])
ErrQuotaTimeout ==
  ProviderError(429, "RESOURCE_EXHAUSTED",
                "quota exceeded, retry after the timeout", NoRetryInfo)
RetryErrors == Errors \cup {ErrQuotaRetry, ErrQuotaTimeout}
\* How a provider call settles: a response with an image part ("image"), a
\* response without one ("noImage"), or a rejection with err ("error")
Outcome(kind, err) == [kind |-> kind, err |-> err]
ProviderOutcomes ==
  {Outcome("image", ErrFatal), Outcome("noImage", ErrFatal)}
    \cup {Outcome("error", e) : e \in Errors}
RetryOutcomes == ProviderOutcomes \cup {Outcome("error", e) : e \in RetryErrors}

\* "sdk": services/outfitGenerator (GoogleGenAI), "proxy": the build that
\* calls Gemini through fetch, "openai": services/outfitGeneratorOpenAI
Variants == {"sdk", "proxy", "openai"}

----------------------------------------------------------------------------
VARIABLES
  variant,         \* generator build imported by the hook
  apiKey,          \* the API key the build tests (VITE_GOOGLE_API_KEY,
                   \* VITE_OPENAI_API_KEY) is set
  generatedImage,  \* hook state
  isGenerating,
  error,
  isComposite,
  inFlightRef,     \* inFlightRef.current
  cacheRef,        \* cacheRef.current: hook key -> {url, isComposite}
  outfitCache,     \* window.__outfitCache: service key -> data URL
  nanoCache,       \* window.__nanoCache
  transferCache,   \* window.__transferCache
  durable,         \* generated_outfits rows: identity key -> url
  durableBody,     \* identity key -> the body image the row's image was
                   \* generated from
  nanoOccasion,    \* service key -> the occasion the entry of
                   \* window.__nanoCache was generated for
  objectUrls,      \* object URLs created and not revoked (by call number)
  callTimestamps,  \* rate limiter: recorded call times
  lastCallTime,    \* rate limiter: time of the last recorded call
  admitted,        \* the times at which the limiter admitted a generate call
  now,             \* Date.now()
  ticks,           \* clock ticks so far
  calls,           \* generate calls suspended at an await
  started,         \* generate calls issued so far
  done,            \* how the generate call that finished last ended
  served,          \* service key -> the image reference a generate call
                   \* first got for it since the memory caches were
                   \* cleared, and the number of that call
  libBuild,        \* copy of lib/supabase in use
  clothingItems,   \* rows of clothing_items: {id, image_url}
  clothingFiles,   \* names of the files in the clothing-images bucket
  adding,          \* the addClothingItem call: its await and its file
  cleaning,        \* the cleanupOrphanedStorageFiles call
  deleting,        \* the deleteClothingItem call
  index,           \* useCarousel: index
  itemsLength,     \* useCarousel: itemsLength
  localStorageItem, \* localStorage item under the carousel's storage key
  mounts           \* mounts of the carousel so far

hookVars == <<generatedImage, isGenerating, error, isComposite, inFlightRef, cacheRef>>
svcVars == <<outfitCache, nanoCache, transferCache, durable, durableBody,
             nanoOccasion>>
limVars == <<callTimestamps, lastCallTime, admitted>>
storeVars == <<libBuild, clothingItems, clothingFiles, adding, cleaning,
               deleting>>
carouselVars == <<index, itemsLength, localStorageItem, mounts>>
\* what no operation of the generation hook touches: the build, the key,
\* the clothing items and the carousels
envVars == <<variant, apiKey, storeVars, carouselVars>>
clockVars == <<now, ticks>>
vars == <<variant, apiKey, generatedImage, isGenerating, error, isComposite,
          inFlightRef, cacheRef, outfitCache, nanoCache, transferCache,
          durable, durableBody, nanoOccasion, objectUrls, callTimestamps, lastCallTime, admitted, now,
          ticks,
          calls, started, done, served, libBuild, clothingItems,
          clothingFiles, adding, cleaning, deleting, index, itemsLength,
          localStorageItem, mounts>>
\* the generation hook and its services
hookSide == <<hookVars, svcVars, limVars, clockVars, objectUrls, calls,
              started, done, served, variant, apiKey>>

----------------------------------------------------------------------------
(* Maps and sequences *)

EmptyMap == [k \in {} |-> Null]
Has(m, k) == k \in DOMAIN m
Put(m, k, v) == [x \in (DOMAIN m) \cup {k} |-> IF x = k THEN v ELSE m[x]]
RemoveAt(s, i) == [j \in 1..(Len(s) - 1) |-> IF j < i THEN s[j] ELSE s[j + 1]]
RECURSIVE Pow(_, _)
Pow(b, e) == IF e = 0 THEN 1 ELSE b * Pow(b, e - 1)
\* Math.round(base * (num/den)^k)
RoundScaled(base, num, den, k) ==
  (2 * base * Pow(num, k) + Pow(den, k)) \div (2 * Pow(den, k))

----------------------------------------------------------------------------
(* Error classification and backoff (services/outfitGenerator) *)

MessageIncludesTimeout(message) ==
  message \in {"Deadline expired", "timeout",
               "quota exceeded, retry after the timeout"}

isQuotaError(err) ==
  IF err.code = 429 THEN TRUE ELSE err.status = "RESOURCE_EXHAUSTED"

isTimeoutError(err) ==
  IF err.code = 503 \/ err.code = 504 THEN TRUE
  ELSE MessageIncludesTimeout(err.message)

isRetryableError(err) == isQuotaError(err) \/ isTimeoutError(err)

\* the first three digits of the fraction, padded with zeros, as a number
FracMs(frac) ==
  LET d(i) == IF i <= Len(frac) THEN frac[i] ELSE 0
  IN  IF frac = <<>> THEN 0 ELSE 100 * d(1) + 10 * d(2) + d(3)

getRetryMsFromError(err, fallbackMs) ==
  IF err.retryDelay # NoRetryInfo
  THEN err.retryDelay.sec * 1000 + FracMs(err.retryDelay.frac)
  ELSE fallbackMs

\* which errors the retry loop of the build retries
RetriesError(v, err) ==
  CASE v = "sdk" -> isRetryableError(err)
    [] v = "proxy" -> isQuotaError(err)
    [] OTHER -> FALSE

\* BackoffMs without the factor
BackoffMsFlat(v, err, attempt) ==
  IF v = "sdk"
  THEN IF isTimeoutError(err) THEN TimeoutBaseMs ELSE QuotaBaseMs
  ELSE getRetryMsFromError(err, RetryFallbackMs)

\* waitMs before retry number attempt (attempt already incremented)
BackoffMs(v, err, attempt) ==
  IF v = "sdk"
  THEN RoundScaled(IF isTimeoutError(err) THEN TimeoutBaseMs ELSE QuotaBaseMs,
                   3, 2, attempt - 1)
  ELSE RoundScaled(getRetryMsFromError(err, RetryFallbackMs), 2, 1, attempt - 1)

MsgApiKey(v) ==
  IF v = "openai"
  THEN "Set VITE_OPENAI_API_KEY in your .env file for image generation."
  ELSE "Set VITE_GOOGLE_API_KEY and enable billing for image generation."
MsgQuota == "API rate limit exceeded. Please wait 60 seconds before trying again."
MsgTimeoutOutfit == "Request timeout. Images have been compressed to 1024x1024. If this persists, try waiting a moment or using smaller source images."
MsgTimeout == "Request timeout. Images have been compressed to 1024x1024. If this persists, try waiting a moment."
MsgNoImage(v) ==
  IF v = "openai" THEN "DALL-E did not return an image URL"
  ELSE "Gemini did not return an image. No image data returned"
MsgOpenAIRateLimit == "Rate limit exceeded. Please wait a moment and try again."
MsgOpenAIKey == "Invalid OpenAI API key. Check your VITE_OPENAI_API_KEY."

\* error of the result returned when the retry loop gives up on err
GiveUpMessage(v, op, err) ==
  IF v = "sdk" /\ isQuotaError(err) THEN MsgQuota
  ELSE IF v = "sdk" /\ isTimeoutError(err)
       THEN (IF op = "outfit" THEN MsgTimeoutOutfit ELSE MsgTimeout)
  ELSE IF v = "openai" /\ op = "outfit" /\ err.code = 429 THEN MsgOpenAIRateLimit
  ELSE IF v = "openai" /\ op = "outfit" /\ err.code = 401 THEN MsgOpenAIKey
  ELSE IF v = "openai" THEN "OpenAI API error: " \o err.message
  ELSE "Gemini API error. " \o err.message

----------------------------------------------------------------------------
(* Rate limiter (services/rateLimiter) *)

\* PurgeOld that drops nothing
PurgeNothing(ts, t) == ts

\* canMakeCall that tests the cooldown before the quota
canMakeCallCooldownFirst(ts, last, t) ==
  LET kept == SelectSeq(ts, LAMBDA x : x >= t - windowMs)
  IN  IF t - last < cooldownMs
      THEN [allowed |-> FALSE, reason |-> "cooldown",
            waitMs |-> cooldownMs - (t - last)]
      ELSE IF Len(kept) >= maxCalls
      THEN [allowed |-> FALSE, reason |-> "quota",
            waitMs |-> kept[1] + windowMs - t]
      ELSE [allowed |-> TRUE, reason |-> NoError, waitMs |-> 0]

\* drop the entries older than t - windowMs
PurgeOld(ts, t) == SelectSeq(ts, LAMBDA x : x >= t - windowMs)

\* a full window denies with reason quota also during the cooldown
canMakeCall(ts, last, t) ==
  LET kept == PurgeOld(ts, t)
  IN  IF Len(kept) >= maxCalls
      THEN [allowed |-> FALSE, reason |-> "quota",
            waitMs |-> kept[1] + windowMs - t]
      ELSE IF t - last < cooldownMs
      THEN [allowed |-> FALSE, reason |-> "cooldown",
            waitMs |-> cooldownMs - (t - last)]
      ELSE [allowed |-> TRUE, reason |-> NoError, waitMs |-> 0]

----------------------------------------------------------------------------
(* Cache keys *)

ModelKey(modelImageUrl) ==
  IF modelImageUrl # NoPath THEN modelImageUrl ELSE "default"
BodyPath(modelImageUrl) ==
  IF modelImageUrl # NoPath THEN modelImageUrl ELSE DEFAULT_BODY_PATH

OutfitHookKey(top, bottom, modelImageUrl, shoes) ==
  "outfit::" \o top.id \o "::" \o bottom.id
    \o (IF shoes # NoItem THEN "::" \o shoes.id ELSE "")
    \o "::" \o ModelKey(modelImageUrl)
NanoHookKey(occasion, modelImageUrl) ==
  "nano::" \o occasion \o "::" \o ModelKey(modelImageUrl)
TransferHookKey(file, modelImageUrl) ==
  "transfer::" \o file.name \o "::" \o ToString(file.size)
    \o "::" \o ModelKey(modelImageUrl)

MODEL(v) == IF v = "sdk" THEN "gemini-2.5-flash-image-preview"
            ELSE "gemini-2.5-flash-image"

\* cacheKeyFor; only the proxy build has a shoePath parameter, and the
\* OpenAI build is given the body path as its modelDescription
cacheKeyFor(v, topPath, bottomPath, bodyPath, promptLen, shoePath) ==
  IF v = "openai"
  THEN "outfit_openai_" \o topPath \o "|" \o bottomPath \o "|" \o bodyPath
  ELSE "outfit_" \o MODEL(v) \o "|" \o topPath \o "|" \o bottomPath
         \o (IF v = "proxy" /\ shoePath # NoPath THEN "|" \o shoePath ELSE "")
         \o "|" \o bodyPath \o "|v1:" \o ToString(promptLen)
buildPromptLen(v, shoePath) ==
  IF v = "proxy" /\ shoePath # NoPath THEN BuildPromptShoesLen
  ELSE BuildPromptLen
NanoServiceKey(v, occasion, bodyPath) ==
  IF v = "openai" THEN "nano_openai_" \o occasion
  ELSE "nano_" \o MODEL(v) \o "|" \o bodyPath \o "|v1:"
         \o ToString(NanoPromptFixedLen + Len(occasion))
TransferServiceKey(v, inspirationImagePath, bodyPath) ==
  "transfer_" \o MODEL(v) \o "|" \o inspirationImagePath \o "|" \o bodyPath
    \o "|v1:" \o ToString(TransferPromptLen)

\* row of generated_outfits a request reads and writes
pairKey(topId, bottomId, shoeId) ==
  [top_id |-> topId, bottom_id |-> bottomId, shoe_id |-> shoeId]

----------------------------------------------------------------------------
(* A generate call and its result *)

\* pc: the await the call is suspended at
\*   "durable"  getCachedComposite          "memsave"  upload/save, memory hit
\*   "prep"     toBase64 / compressImage / vision description
\*   "provider" generateContent / images.generate
\*   "backoff"  setTimeout(waitMs)          "fetch"    download of the image
\*   "store"    upload/save, new image      "fallback" createComposite
\* What the call did so far: provCalls (provider calls made), errs (the
\* errors they rejected with), last (how the last one settled: "none",
\* "image", "noImage", "error", or "download" when the image was not
\* fetched), svcError (error of the service's result), threw (the service
\* call rejected), stored (how upload and save of the image went: "none",
\* "ok", "uploadFails", "saveFails"), fb (the fallback: "none", "pending",
\* "ok", "fail", "throw").  body and occasion are the body image path and
\* the occasion of the request; detached: clearCache() replaced the Map the
\* service holds in its local variable cache.
\* description: what the OpenAI build's prompt is composed from, once the
\* vision descriptions settled: the model's text, or the text
\* describeClothingItem returns from its catch
NoDescription == "none"
Described == "described"
ClothingItem == "clothing item"

NewCall(n, op, hkey, skey, topId, bottomId, shoeId, body, occasion) ==
  [n |-> n, op |-> op, hkey |-> hkey, skey |-> skey, topId |-> topId,
   bottomId |-> bottomId, shoeId |-> shoeId, body |-> body,
   occasion |-> occasion, detached |-> FALSE, pc |-> "start", attempt |-> 0,
   provCalls |-> 0, errs |-> <<>>, last |-> "none", waitMs |-> 0,
   dataUrl |-> Null, svcError |-> NoError, threw |-> FALSE,
   stored |-> "none", fb |-> "none", description |-> NoDescription]

\* OutfitGenerationResult; threw: the service call rejected instead
Success(imageUrl) ==
  [success |-> TRUE, imageUrl |-> imageUrl, error |-> NoError, threw |-> FALSE]
Fail(msg) ==
  [success |-> FALSE, imageUrl |-> Null, error |-> msg, threw |-> FALSE]
Threw(msg) ==
  [success |-> FALSE, imageUrl |-> Null, error |-> msg, threw |-> TRUE]

\* How a call ended.  outcome: "rejected" (in-flight guard), "threw"
\* (createObjectURL), "hookHit", "rateLimited", "success", "fallback",
\* "error"; imageUrl and error are the hook's state when it returned.
DoneRecord(c, outcome, imageUrl, err) ==
  [n |-> c.n, op |-> c.op, hkey |-> c.hkey, skey |-> c.skey,
   topId |-> c.topId, bottomId |-> c.bottomId, shoeId |-> c.shoeId,
   body |-> c.body, occasion |-> c.occasion,
   outcome |-> outcome, imageUrl |-> imageUrl, error |-> err,
   provCalls |-> c.provCalls, errs |-> c.errs, last |-> c.last,
   svcError |-> c.svcError, threw |-> c.threw, stored |-> c.stored,
   fb |-> c.fb]

HasIds(c) == c.topId # NoId /\ c.bottomId # NoId

IsNew(i) == i > Len(calls)
Place(i, c) == IF IsNew(i) THEN Append(calls, c) ELSE [calls EXCEPT ![i] = c]
Drop(i) == IF IsNew(i) THEN calls ELSE RemoveAt(calls, i)

----------------------------------------------------------------------------
(* The hook's continuation of a generate call *)

MsgFailed(op) ==
  CASE op = "outfit" -> "Failed to generate outfit. Please try again."
    [] op = "nano" -> "Failed to generate nano outfit. Please try again."
    [] OTHER -> "Failed to transfer outfit. Please try again."
MsgComposite == "Using composite image (AI generation unavailable)"

\* Finish without URL.revokeObjectURL
FinishNoRevoke(i, c, outcome, img, err, comp, store) ==
  /\ generatedImage' = img
  /\ isComposite' = comp
  /\ error' = err
  /\ isGenerating' = FALSE
  /\ inFlightRef' = FALSE
  /\ cacheRef' = IF store
                 THEN Put(cacheRef, c.hkey, [url |-> img, isComposite |-> comp])
                 ELSE cacheRef
  /\ objectUrls' = objectUrls
  /\ calls' = Drop(i)
  /\ done' = DoneRecord(c, outcome, img, err)
  /\ served' = IF outcome = "success" /\ ~c.detached /\ ~Has(served, c.skey)
               THEN Put(served, c.skey, [url |-> img, n |-> c.n])
               ELSE served

\* the call leaves the hook: state updates of its last branch and of finally
Finish(i, c, outcome, img, err, comp, store) ==
  /\ generatedImage' = img
  /\ isComposite' = comp
  /\ error' = err
  /\ isGenerating' = FALSE
  /\ inFlightRef' = FALSE
  /\ cacheRef' = IF store
                 THEN Put(cacheRef, c.hkey, [url |-> img, isComposite |-> comp])
                 ELSE cacheRef
  /\ objectUrls' = objectUrls \ {c.n}
  /\ calls' = Drop(i)
  /\ done' = DoneRecord(c, outcome, img, err)
  /\ served' = IF outcome = "success" /\ ~c.detached /\ ~Has(served, c.skey)
               THEN Put(served, c.skey, [url |-> img, n |-> c.n])
               ELSE served

\* the call is suspended at the await c.pc names; a call that reaches its
\* first await has run setIsGenerating(true), setError(null),
\* setIsComposite(false)
Stay(i, c) ==
  /\ calls' = Place(i, c)
  /\ objectUrls' = IF c.op = "transfer" THEN objectUrls \cup {c.n} ELSE objectUrls
  /\ IF IsNew(i)
     THEN /\ isGenerating' = TRUE
          /\ error' = NoError
          /\ isComposite' = FALSE
          /\ inFlightRef' = TRUE
          /\ UNCHANGED <<generatedImage, cacheRef>>
     ELSE UNCHANGED hookVars
  /\ UNCHANGED <<done, served>>

\* Return that sends every operation to the composite fallback
ReturnFallbackAnyOp(i, c, res) ==
  LET cr == [c EXCEPT !.svcError = res.error, !.threw = res.threw]
      curErr == IF IsNew(i) THEN NoError ELSE error
  IN  IF res.threw
      THEN Finish(i, cr, "error", Null, MsgFailed(c.op), FALSE, FALSE)
      ELSE IF res.success /\ res.imageUrl # Null
      THEN Finish(i, cr, "success", res.imageUrl, curErr, FALSE, TRUE)
      ELSE Stay(i, [cr EXCEPT !.pc = "fallback", !.fb = "pending"])

\* Return that puts the failed call in the hook cache
ReturnCachesError(i, c, res) ==
  LET cr == [c EXCEPT !.svcError = res.error, !.threw = res.threw]
      curErr == IF IsNew(i) THEN NoError ELSE error
  IN  IF res.threw
      THEN Finish(i, cr, "error", Null, MsgFailed(c.op), FALSE, TRUE)
      ELSE IF res.success /\ res.imageUrl # Null
      THEN Finish(i, cr, "success", res.imageUrl, curErr, FALSE, TRUE)
      ELSE IF c.op = "outfit"
      THEN Stay(i, [cr EXCEPT !.pc = "fallback", !.fb = "pending"])
      ELSE Finish(i, cr, "error", Null, MsgFailed(c.op), FALSE, TRUE)

\* the service call of c settles with res
Return(i, c, res) ==
  LET cr == [c EXCEPT !.svcError = res.error, !.threw = res.threw]
      curErr == IF IsNew(i) THEN NoError ELSE error
  IN  IF res.threw
      THEN Finish(i, cr, "error", Null, MsgFailed(c.op), FALSE, FALSE)
      ELSE IF res.success /\ res.imageUrl # Null
      THEN Finish(i, cr, "success", res.imageUrl, curErr, FALSE, TRUE)
      ELSE IF c.op = "outfit"
      THEN Stay(i, [cr EXCEPT !.pc = "fallback", !.fb = "pending"])
      ELSE Finish(i, cr, "error", Null, MsgFailed(c.op), FALSE, FALSE)

----------------------------------------------------------------------------
(* The service up to its first await *)

Await(pc) == [imm |-> FALSE, res |-> Fail(NoError), pc |-> pc, dataUrl |-> Null]
Settled(res) == [imm |-> TRUE, res |-> res, pc |-> "start", dataUrl |-> Null]

\* generateOutfitInternal from the in-memory cache check on
MemoryCheck(c) ==
  IF Has(outfitCache, c.skey)
  THEN IF HasIds(c)
       THEN [Await("memsave") EXCEPT !.dataUrl = outfitCache[c.skey]]
       ELSE Settled(Success(outfitCache[c.skey]))
  ELSE Await("prep")

\* the proxy build's generateOutfitInternal tests no key; the OpenAI build
\* sends the nano prompt without preparing an image and caches no transfer
ServiceEntry(c) ==
  CASE c.op = "outfit" ->
         IF variant # "proxy" /\ ~apiKey THEN Settled(Fail(MsgApiKey(variant)))
         ELSE IF HasIds(c) THEN Await("durable")
         ELSE MemoryCheck(c)
    [] c.op = "nano" ->
         IF ~apiKey THEN Settled(Fail(MsgApiKey(variant)))
         ELSE IF Has(nanoCache, c.skey) THEN Settled(Success(nanoCache[c.skey]))
         ELSE IF variant = "openai" THEN Await("provider")
         ELSE Await("prep")
    [] OTHER ->
         IF ~apiKey THEN Settled(Fail(MsgApiKey(variant)))
         ELSE IF variant # "openai" /\ Has(transferCache, c.skey)
         THEN Settled(Success(transferCache[c.skey]))
         ELSE Await("prep")

\* continue c as e says; a call that awaits the provider has invoked it
Proceed(i, c, e) ==
  IF e.imm THEN Return(i, c, e.res)
  ELSE Stay(i, [c EXCEPT !.pc = e.pc, !.dataUrl = e.dataUrl,
                         !.provCalls = IF e.pc = "provider" THEN @ + 1 ELSE @])

----------------------------------------------------------------------------
(* Hook operations: the synchronous part of a generate call *)

\* URL.createObjectURL(inspirationFile) and, before the return,
\* URL.revokeObjectURL(inspirationUrl)
CreatedAndRevoked(c) ==
  objectUrls' = (IF c.op = "transfer" THEN objectUrls \cup {c.n}
                 ELSE objectUrls) \ {c.n}

\* Rejected that leaves through the finally block of the pending call
RejectedThroughFinally(c) ==
  /\ done' = DoneRecord(c, "rejected", Null, NoError)
  /\ isGenerating' = FALSE
  /\ inFlightRef' = FALSE
  /\ UNCHANGED <<generatedImage, error, isComposite, cacheRef, limVars,
                 objectUrls, calls, served>>

\* the call returns at the in-flight guard
Rejected(c) ==
  /\ done' = DoneRecord(c, "rejected", Null, NoError)
  /\ UNCHANGED <<hookVars, limVars, objectUrls, calls, served>>

\* the hook cache holds the key
HookCacheHit(c, comp) ==
  /\ generatedImage' = cacheRef[c.hkey].url
  /\ isComposite' = comp
  /\ error' = NoError
  /\ inFlightRef' = FALSE
  /\ done' = DoneRecord(c, "hookHit", cacheRef[c.hkey].url, NoError)
  /\ CreatedAndRevoked(c)
  /\ UNCHANGED <<isGenerating, cacheRef, limVars, calls, served>>

\* RateLimited that records the denied call in the limiter
RateLimitedRecords(c, rl) ==
  LET msg == IF rl.reason # NoError THEN rl.reason ELSE "Rate limit exceeded"
  IN  /\ error' = msg
      /\ generatedImage' = Null
      /\ isComposite' = FALSE
      /\ inFlightRef' = FALSE
      /\ callTimestamps' = Append(PurgeOld(callTimestamps, now), now)
      /\ lastCallTime' = now
      /\ done' = DoneRecord(c, "rateLimited", Null, msg)
      /\ CreatedAndRevoked(c)
      /\ UNCHANGED <<isGenerating, cacheRef, admitted, calls, served>>

\* canGenerate() denies the call
RateLimited(c, rl) ==
  LET msg == IF rl.reason # NoError THEN rl.reason ELSE "Rate limit exceeded"
  IN  /\ error' = msg
      /\ generatedImage' = Null
      /\ isComposite' = FALSE
      /\ inFlightRef' = FALSE
      /\ callTimestamps' = PurgeOld(callTimestamps, now)
      /\ done' = DoneRecord(c, "rateLimited", Null, msg)
      /\ CreatedAndRevoked(c)
      /\ UNCHANGED <<isGenerating, cacheRef, lastCallTime, admitted, calls,
                     served>>

\* Admitted without rateLimiter.recordCall()
AdmittedNoRecord(c) ==
  /\ callTimestamps' = PurgeOld(callTimestamps, now)
  /\ lastCallTime' = lastCallTime
  /\ admitted' = Append(admitted, now)
  /\ Proceed(Len(calls) + 1, c, ServiceEntry(c))

\* rateLimiter.recordCall(), then the service call
Admitted(c) ==
  /\ callTimestamps' = Append(PurgeOld(callTimestamps, now), now)
  /\ lastCallTime' = now
  /\ admitted' = Append(admitted, now)
  /\ Proceed(Len(calls) + 1, c, ServiceEntry(c))

\* HookCall without the test of inFlightRef.current
HookCallUnguarded(c, compOnHit) ==
  IF Has(cacheRef, c.hkey) THEN HookCacheHit(c, compOnHit)
  ELSE LET rl == canMakeCall(callTimestamps, lastCallTime, now)
       IN  IF ~rl.allowed THEN RateLimited(c, rl) ELSE Admitted(c)

\* HookCall with a guard per key: only a pending call of the same key
\* makes the call return
HookCallPerKey(c, compOnHit) ==
  IF \E i \in 1..Len(calls) : calls[i].hkey = c.hkey THEN Rejected(c)
  ELSE IF Has(cacheRef, c.hkey) THEN HookCacheHit(c, compOnHit)
  ELSE LET rl == canMakeCall(callTimestamps, lastCallTime, now)
       IN  IF ~rl.allowed THEN RateLimited(c, rl) ELSE Admitted(c)

\* from the guard to the first await
HookCall(c, compOnHit) ==
  IF inFlightRef THEN Rejected(c)
  ELSE IF Has(cacheRef, c.hkey) THEN HookCacheHit(c, compOnHit)
  ELSE LET rl == canMakeCall(callTimestamps, lastCallTime, now)
       IN  IF ~rl.allowed THEN RateLimited(c, rl) ELSE Admitted(c)

CanStart == started < MaxStarts /\ Len(calls) < MaxPending

OutfitCall(top, bottom, modelImageUrl, shoes) ==
  LET hkey == OutfitHookKey(top, bottom, modelImageUrl, shoes)
      shoePath == IF variant = "proxy" THEN shoes.imageUrl ELSE NoPath
      shoeId == IF variant = "proxy" THEN shoes.id ELSE NoId
      skey == cacheKeyFor(variant, top.imageUrl, bottom.imageUrl,
                          BodyPath(modelImageUrl),
                          buildPromptLen(variant, shoePath), shoePath)
      c == NewCall(started + 1, "outfit", hkey, skey, top.id, bottom.id,
                   shoeId, BodyPath(modelImageUrl), "")
  IN  /\ started' = started + 1
      /\ HookCall(c, IF Has(cacheRef, hkey) THEN cacheRef[hkey].isComposite
                     ELSE FALSE)
      /\ UNCHANGED <<svcVars, envVars, clockVars>>

NanoCall(occasion, modelImageUrl) ==
  LET hkey == NanoHookKey(occasion, modelImageUrl)
      skey == NanoServiceKey(variant, occasion, BodyPath(modelImageUrl))
      c == NewCall(started + 1, "nano", hkey, skey, NoId, NoId, NoId,
                   BodyPath(modelImageUrl), occasion)
  IN  /\ started' = started + 1
      /\ HookCall(c, FALSE)
      /\ UNCHANGED <<svcVars, envVars, clockVars>>

GenerateOutfit(top, bottom, modelImageUrl, shoes) ==
  CanStart /\ OutfitCall(top, bottom, modelImageUrl, shoes)

GenerateNanoOutfit(occasion, modelImageUrl) ==
  CanStart /\ NanoCall(occasion, modelImageUrl)

\* created: URL.createObjectURL(inspirationFile) returns (it throws a
\* TypeError otherwise); the URL is revoked on every return after it
TransferCall(file, modelImageUrl, created) ==
  LET hkey == TransferHookKey(file, modelImageUrl)
      inspirationUrl == "blob:" \o ToString(started + 1)
      skey == TransferServiceKey(variant, inspirationUrl, BodyPath(modelImageUrl))
      c == NewCall(started + 1, "transfer", hkey, skey, NoId, NoId, NoId,
                   BodyPath(modelImageUrl), "")
  IN  /\ started' = started + 1
      /\ IF ~inFlightRef /\ ~created
         THEN /\ inFlightRef' = TRUE
              /\ done' = DoneRecord(c, "threw", Null, NoError)
              /\ UNCHANGED <<generatedImage, isGenerating, error, isComposite,
                             cacheRef, limVars, objectUrls, calls, served>>
         ELSE HookCall(c, FALSE)
      /\ UNCHANGED <<svcVars, envVars, clockVars>>

GenerateOutfitTransfer(file, modelImageUrl, created) ==
  CanStart /\ TransferCall(file, modelImageUrl, created)

----------------------------------------------------------------------------
(* Service steps: one action per await that settles *)

AtPc(i, pc) == i \in 1..Len(calls) /\ calls[i].pc = pc

IdentityKey(c) == pairKey(c.topId, c.bottomId, c.shoeId)

\* getCachedComposite settles: the row's url, or null (no row, or the query
\* failed)
GetCachedCompositeReturns(i, queryOk) ==
  /\ AtPc(i, "durable")
  /\ LET c == calls[i]
         cachedUrl == IF queryOk /\ Has(durable, IdentityKey(c))
                      THEN durable[IdentityKey(c)] ELSE Null
     IN  IF cachedUrl # Null THEN Return(i, c, Success(cachedUrl))
         ELSE Proceed(i, c, MemoryCheck(c))
  /\ UNCHANGED <<svcVars, limVars, envVars, clockVars, started>>

\* SaveToSupabase that returns the storage URL without saving the row
SaveToSupabaseNoRow(c, dataUrl, r) ==
  LET storageUrl == StorageUrl(c.topId, c.bottomId, c.shoeId, now)
  IN  IF r = "ok"
      THEN [url |-> storageUrl, rows |-> durable]
      ELSE [url |-> dataUrl, rows |-> durable]

\* uploadImage + saveCachedComposite of a data URL: the url returned and the
\* rows afterwards.  r: "ok", "uploadFails" or "saveFails"
SaveToSupabase(c, dataUrl, r) ==
  LET storageUrl == StorageUrl(c.topId, c.bottomId, c.shoeId, now)
  IN  IF r = "ok"
      THEN [url |-> storageUrl, rows |-> Put(durable, IdentityKey(c), storageUrl)]
      ELSE [url |-> dataUrl, rows |-> durable]

\* the body image behind each row once upload and save settled as r
RowBody(c, r) ==
  IF r = "ok" THEN Put(durableBody, IdentityKey(c), c.body) ELSE durableBody

\* memory hit with IDs: the cached image is uploaded and saved again
MemoryHitSaveReturns(i, r) ==
  /\ AtPc(i, "memsave")
  /\ LET c == calls[i]
         saved == SaveToSupabase(c, c.dataUrl, r)
     IN  /\ durable' = saved.rows
         /\ durableBody' = RowBody(c, r)
         /\ Return(i, [c EXCEPT !.stored = r], Success(saved.url))
  /\ UNCHANGED <<outfitCache, nanoCache, transferCache, nanoOccasion, limVars,
                 envVars, clockVars, started>>

\* PreprocessReturns where a failed description of a clothing item fails
\* the request
DescriptionFails(i, ok) ==
  /\ AtPc(i, "prep")
  /\ LET c == calls[i]
     IN  IF ok
         THEN Stay(i, [c EXCEPT !.pc = "provider", !.provCalls = @ + 1,
                                !.description =
                                  IF variant = "openai" THEN Described ELSE @])
         ELSE IF variant = "openai"
         THEN Return(i, c, Fail("OpenAI API error: description failed"))
         ELSE Return(i, c, Threw("Failed to load image"))
  /\ UNCHANGED <<svcVars, limVars, envVars, clockVars, started>>

\* Gemini builds: the input images are loaded and compressed; the first
\* provider call follows, or the rejection leaves the service.  OpenAI
\* build: the vision descriptions settle; describeClothingItem catches its
\* error, the transfer's description call is inside the service's try
PreprocessReturns(i, ok) ==
  /\ AtPc(i, "prep")
  /\ LET c == calls[i]
     IN  IF ok \/ (variant = "openai" /\ c.op = "outfit")
         THEN Stay(i, [c EXCEPT !.pc = "provider", !.provCalls = @ + 1,
                                !.description =
                                  IF variant # "openai" THEN @
                                  ELSE IF ok THEN Described ELSE ClothingItem])
         ELSE IF variant = "openai"
         THEN Return(i, c, Fail("OpenAI API error: description failed"))
         ELSE Return(i, c, Threw("Failed to load image"))
  /\ UNCHANGED <<svcVars, limVars, envVars, clockVars, started>>

\* OnProviderError with the attempt test off by one
OnProviderErrorOneMore(i, c, err) ==
  LET ce == [c EXCEPT !.errs = Append(@, err), !.last = "error"]
  IN  IF ~RetriesError(variant, err) \/ c.attempt >= maxAttempts
      THEN Return(i, ce, Fail(GiveUpMessage(variant, c.op, err)))
      ELSE Stay(i, [ce EXCEPT !.pc = "backoff", !.attempt = @ + 1,
                              !.waitMs = BackoffMs(variant, err, c.attempt + 1)])

\* the catch block of the retry loop: give up or back off
OnProviderError(i, c, err) ==
  LET ce == [c EXCEPT !.errs = Append(@, err), !.last = "error"]
  IN  IF ~RetriesError(variant, err) \/ c.attempt >= maxAttempts - 1
      THEN Return(i, ce, Fail(GiveUpMessage(variant, c.op, err)))
      ELSE Stay(i, [ce EXCEPT !.pc = "backoff", !.attempt = @ + 1,
                              !.waitMs = BackoffMs(variant, err, c.attempt + 1)])

\* cache.set(key, dataUrl) on the Map the service holds: the operation's
\* cache, unless clearCache() put a new Map in its place since
CacheSet(c, dataUrl) ==
  LET set(op) == c.op = op /\ ~c.detached
  IN  /\ outfitCache' = IF set("outfit") THEN Put(outfitCache, c.skey, dataUrl)
                        ELSE outfitCache
      /\ nanoCache' = IF set("nano") THEN Put(nanoCache, c.skey, dataUrl)
                      ELSE nanoCache
      /\ nanoOccasion' = IF set("nano")
                         THEN Put(nanoOccasion, c.skey, c.occasion)
                         ELSE nanoOccasion
      /\ transferCache' = IF set("transfer") /\ variant # "openai"
                          THEN Put(transferCache, c.skey, dataUrl)
                          ELSE transferCache

\* the service holds the data URL of the new image: it is cached, and
\* stored when the request has IDs
OnImage(i, c) ==
  LET dataUrl == DataUrl(c.n)
  IN  /\ CacheSet(c, dataUrl)
      /\ IF c.op = "outfit" /\ HasIds(c)
         THEN Stay(i, [c EXCEPT !.pc = "store", !.dataUrl = dataUrl])
         ELSE Return(i, c, Success(dataUrl))

\* a provider call settles as out says
ProviderReturns(i, out) ==
  /\ AtPc(i, "provider")
  /\ LET c == calls[i]
     IN  IF out.kind = "image" /\ variant # "openai"
         THEN OnImage(i, [c EXCEPT !.last = "image"])
         ELSE /\ UNCHANGED <<outfitCache, nanoCache, transferCache,
                             nanoOccasion>>
              /\ IF out.kind = "image"
                 THEN Stay(i, [c EXCEPT !.pc = "fetch", !.last = "image"])
                 ELSE IF out.kind = "noImage"
                 THEN Return(i, [c EXCEPT !.last = "noImage"],
                             Fail(MsgNoImage(variant)))
                 ELSE OnProviderError(i, c, out.err)
  /\ UNCHANGED <<durable, durableBody, limVars, envVars, clockVars, started>>

\* OpenAI build: the generated image is downloaded and read as a data URL
FetchReturns(i, ok) ==
  /\ AtPc(i, "fetch")
  /\ LET c == calls[i]
     IN  IF ok THEN OnImage(i, c)
         ELSE /\ UNCHANGED <<outfitCache, nanoCache, transferCache,
                             nanoOccasion>>
              /\ Return(i, [c EXCEPT !.last = "download"],
                        Fail("OpenAI API error: Failed to fetch"))
  /\ UNCHANGED <<durable, durableBody, limVars, envVars, clockVars, started>>

\* BackoffElapses that records the retry in the rate limiter
BackoffElapsesRecords(i) ==
  /\ AtPc(i, "backoff")
  /\ LET c == calls[i]
     IN  IF variant # "sdk" \/ c.attempt < maxAttempts
         THEN Stay(i, [c EXCEPT !.pc = "provider", !.provCalls = @ + 1])
         ELSE Return(i, c, Threw("resp is undefined"))
  /\ callTimestamps' = Append(PurgeOld(callTimestamps, now), now)
  /\ lastCallTime' = now
  /\ UNCHANGED <<svcVars, admitted, envVars, clockVars, started>>

\* the backoff timer fires: next iteration of the loop
BackoffElapses(i) ==
  /\ AtPc(i, "backoff")
  /\ LET c == calls[i]
     IN  IF variant # "sdk" \/ c.attempt < maxAttempts
         THEN Stay(i, [c EXCEPT !.pc = "provider", !.provCalls = @ + 1])
         ELSE Return(i, c, Threw("resp is undefined"))
  /\ UNCHANGED <<svcVars, limVars, envVars, clockVars, started>>

\* StoreReturns that fails the request when upload or save fails
StoreReturnsFatal(i, r) ==
  /\ AtPc(i, "store")
  /\ LET c == calls[i]
         saved == SaveToSupabase(c, c.dataUrl, r)
     IN  /\ durable' = saved.rows
         /\ durableBody' = RowBody(c, r)
         /\ IF r = "ok"
            THEN Return(i, [c EXCEPT !.stored = r], Success(saved.url))
            ELSE Return(i, [c EXCEPT !.stored = r], Fail("Error saving to Supabase"))
  /\ UNCHANGED <<outfitCache, nanoCache, transferCache, nanoOccasion, limVars,
                 envVars, clockVars, started>>

\* the new image is uploaded and saved
StoreReturns(i, r) ==
  /\ AtPc(i, "store")
  /\ LET c == calls[i]
         saved == SaveToSupabase(c, c.dataUrl, r)
     IN  /\ durable' = saved.rows
         /\ durableBody' = RowBody(c, r)
         /\ Return(i, [c EXCEPT !.stored = r], Success(saved.url))
  /\ UNCHANGED <<outfitCache, nanoCache, transferCache, nanoOccasion, limVars,
                 envVars, clockVars, started>>

\* CreateCompositeReturns that shows the composite as a generated image
CreateCompositeReturnsUnmarked(i, r) ==
  /\ AtPc(i, "fallback")
  /\ LET c == calls[i]
         cf == [c EXCEPT !.fb = r]
     IN  IF r = "ok"
         THEN Finish(i, cf, "fallback", CompositeUrl(c.n), NoError, FALSE, TRUE)
         ELSE Finish(i, cf, "error", Null, MsgFailed(c.op), FALSE, FALSE)
  /\ UNCHANGED <<svcVars, limVars, envVars, clockVars, started>>

\* imageComposer.createComposite settles.  r: "ok", "fail" (a result without
\* success) or "throw"
CreateCompositeReturns(i, r) ==
  /\ AtPc(i, "fallback")
  /\ LET c == calls[i]
         cf == [c EXCEPT !.fb = r]
     IN  IF r = "ok"
         THEN Finish(i, cf, "fallback", CompositeUrl(c.n), MsgComposite, TRUE, TRUE)
         ELSE Finish(i, cf, "error", Null, MsgFailed(c.op), FALSE, FALSE)
  /\ UNCHANGED <<svcVars, limVars, envVars, clockVars, started>>

\* OutfitGenerator.getCacheSize() on the caches o, n, t; the OpenAI build
\* has no transfer cache
getCacheSize(v, o, n, t) ==
  Cardinality(DOMAIN o) + Cardinality(DOMAIN n)
    + (IF v = "openai" THEN 0 ELSE Cardinality(DOMAIN t))

\* clearCache that resets window.__outfitCache only
ClearCacheOutfitOnly ==
  /\ outfitCache' = EmptyMap
  /\ served' = EmptyMap
  /\ calls' = [i \in 1..Len(calls) |->
                IF calls[i].pc \in {"prep", "provider", "backoff", "fetch"}
                THEN [calls[i] EXCEPT !.detached = TRUE] ELSE calls[i]]
  /\ UNCHANGED <<nanoCache, transferCache, nanoOccasion, durable, durableBody,
                 hookVars, limVars, envVars, clockVars, objectUrls, started,
                 done>>

\* OutfitGenerator.clearCache()
ClearCache ==
  /\ outfitCache' = EmptyMap
  /\ nanoCache' = EmptyMap
  /\ transferCache' = EmptyMap
  /\ nanoOccasion' = EmptyMap
  /\ served' = EmptyMap
  /\ calls' = [i \in 1..Len(calls) |->
                IF calls[i].pc \in {"prep", "provider", "backoff", "fetch"}
                THEN [calls[i] EXCEPT !.detached = TRUE] ELSE calls[i]]
  /\ UNCHANGED <<durable, durableBody, hookVars, limVars, envVars, clockVars,
                 objectUrls, started, done>>

\* clearGeneratedImage()
ClearGeneratedImage ==
  /\ generatedImage' = Null
  /\ isComposite' = FALSE
  /\ error' = NoError
  /\ UNCHANGED <<isGenerating, inFlightRef, cacheRef, svcVars, limVars,
                 envVars, clockVars, objectUrls, calls, started, done, served>>

\* time passes
Tick ==
  /\ ticks < MaxTicks
  /\ ticks' = ticks + 1
  /\ now' = now + TickMs
  /\ UNCHANGED <<hookVars, svcVars, limVars, envVars, objectUrls, calls,
                 started, done, served>>

----------------------------------------------------------------------------
(* lib/supabase: clothing items and their image files *)

\* the file holds two copies of the module: the first one (with the
\* cleanup utilities) and a second one after it
LibBuilds == {"first", "second"}

\* getPublicUrl(path).publicUrl, as the parts between its slashes
PublicUrl(fileName) ==
  <<"https:", "", "project.supabase.co", "storage", "v1", "object", "public",
    "clothing-images", fileName>>
\* image_url.split("/"), last part
FileNameOf(image_url) == image_url[Len(image_url)]
\* `${category}_${timestamp}.${fileExtension}`; the n-th call reads its own
\* Date.now()
ClothingFileName(n) == "tops_" \o ToString(n) \o ".png"

IdleAdd(n) == [pc |-> "idle", n |-> n, fileName |-> ""]
IdleCleanup(runs, result, deletedFiles, errors) ==
  [pc |-> "idle", runs |-> runs, dbFilenames |-> {}, orphanedFiles |-> {},
   deletedFiles |-> deletedFiles, errors |-> errors, result |-> result]
\* result: "none", "returned" or "threw"; the errors the call met and
\* whether it sent the delete of the row
IdleDelete(runs, result, d) ==
  [pc |-> "idle", runs |-> runs, id |-> d.id, fileName |-> d.fileName,
   fetchError |-> d.fetchError, storageError |-> d.storageError,
   dbError |-> d.dbError, dbTried |-> d.dbTried, result |-> result]
NoDelete ==
  [id |-> 0, fileName |-> "", fetchError |-> FALSE, storageError |-> FALSE,
   dbError |-> FALSE, dbTried |-> FALSE]

StoreIdle ==
  /\ clothingItems = {}
  /\ clothingFiles = {}
  /\ adding = IdleAdd(0)
  /\ cleaning = IdleCleanup(0, "none", {}, {})
  /\ deleting = IdleDelete(0, "none", NoDelete)

\* addClothingItem: uploadImage settles; the upload failed and the call
\* throws, or the file is in the bucket and the insert follows
AddUploadReturns(ok) ==
  /\ adding.pc = "idle"
  /\ adding.n < MaxAdds
  /\ LET n == adding.n + 1
         fileName == ClothingFileName(n)
     IN  IF ok
         THEN /\ clothingFiles' = clothingFiles \cup {fileName}
              /\ adding' = [pc |-> "insert", n |-> n, fileName |-> fileName]
         ELSE /\ adding' = IdleAdd(n)
              /\ UNCHANGED clothingFiles
  /\ UNCHANGED <<libBuild, clothingItems, cleaning, deleting, hookSide,
                 carouselVars>>

\* addClothingItem: the insert settles; the row exists, or the call throws
AddInsertReturns(ok) ==
  /\ adding.pc = "insert"
  /\ clothingItems' =
       IF ok
       THEN clothingItems
              \cup {[id |-> adding.n, image_url |-> PublicUrl(adding.fileName)]}
       ELSE clothingItems
  /\ adding' = IdleAdd(adding.n)
  /\ UNCHANGED <<libBuild, clothingFiles, cleaning, deleting, hookSide,
                 carouselVars>>

\* cleanupOrphanedStorageFiles: the select of image_url settles
CleanupSelectReturns(ok) ==
  /\ libBuild = "first"
  /\ cleaning.pc = "idle"
  /\ cleaning.runs < MaxCleanups
  /\ cleaning' =
       IF ok
       THEN [pc |-> "list", runs |-> cleaning.runs + 1,
             dbFilenames |-> {FileNameOf(item.image_url) : item \in clothingItems},
             orphanedFiles |-> {}, deletedFiles |-> {}, errors |-> {},
             result |-> "none"]
       ELSE IdleCleanup(cleaning.runs + 1, "threw", {}, {})
  /\ UNCHANGED <<libBuild, clothingItems, clothingFiles, adding, deleting,
                 hookSide, carouselVars>>

\* the call returns when no orphaned file is left to delete
CleanupGoesOn(c) ==
  IF c.orphanedFiles = {}
  THEN IdleCleanup(c.runs, "returned", c.deletedFiles, c.errors)
  ELSE [c EXCEPT !.pc = "delete"]

\* cleanupOrphanedStorageFiles: the listing of the bucket settles
CleanupListReturns(ok) ==
  /\ cleaning.pc = "list"
  /\ cleaning' =
       IF ok
       THEN CleanupGoesOn([cleaning EXCEPT
                            !.orphanedFiles = clothingFiles \ cleaning.dbFilenames])
       ELSE IdleCleanup(cleaning.runs, "threw", {}, {})
  /\ UNCHANGED <<libBuild, clothingItems, clothingFiles, adding, deleting,
                 hookSide, carouselVars>>

\* cleanupOrphanedStorageFiles: deleteImage of the orphaned file f settles
CleanupDeleteReturns(f, ok) ==
  /\ cleaning.pc = "delete"
  /\ f \in cleaning.orphanedFiles
  /\ clothingFiles' = IF ok THEN clothingFiles \ {f} ELSE clothingFiles
  /\ cleaning' =
       CleanupGoesOn([cleaning EXCEPT
                       !.orphanedFiles = @ \ {f},
                       !.deletedFiles = IF ok THEN @ \cup {f} ELSE @,
                       !.errors = IF ok THEN @ ELSE @ \cup {f}])
  /\ UNCHANGED <<libBuild, clothingItems, adding, deleting, hookSide,
                 carouselVars>>

\* deleteClothingItem(id): the select of the row settles
DeleteFetchReturns(id, ok) ==
  /\ deleting.pc = "idle"
  /\ deleting.runs < MaxDeletes
  /\ LET rows == {item \in clothingItems : item.id = id}
         d == [NoDelete EXCEPT !.id = id]
     IN  deleting' =
           IF ok /\ rows # {}
           THEN [IdleDelete(deleting.runs + 1, "none",
                            [d EXCEPT !.fileName =
                               FileNameOf((CHOOSE item \in rows : TRUE).image_url)])
                   EXCEPT !.pc = "storage"]
           ELSE IdleDelete(deleting.runs + 1, "threw",
                           [d EXCEPT !.fetchError = TRUE])
  /\ UNCHANGED <<libBuild, clothingItems, clothingFiles, adding, cleaning,
                 hookSide, carouselVars>>

\* deleteClothingItem: deleteImage settles; the first copy catches its
\* error and goes on, the second lets it leave the call
DeleteStorageReturns(ok) ==
  /\ deleting.pc = "storage"
  /\ clothingFiles' = IF ok THEN clothingFiles \ {deleting.fileName}
                      ELSE clothingFiles
  /\ deleting' =
       IF ok THEN [deleting EXCEPT !.pc = "db"]
       ELSE IF libBuild = "first"
       THEN [deleting EXCEPT !.pc = "db", !.storageError = TRUE]
       ELSE IdleDelete(deleting.runs, "threw",
                       [deleting EXCEPT !.storageError = TRUE])
  /\ UNCHANGED <<libBuild, clothingItems, adding, cleaning, hookSide,
                 carouselVars>>

\* deleteClothingItem: the delete of the row settles
DeleteDbReturns(ok) ==
  /\ deleting.pc = "db"
  /\ clothingItems' =
       IF ok THEN {item \in clothingItems : item.id # deleting.id}
       ELSE clothingItems
  /\ deleting' =
       IdleDelete(deleting.runs, IF ok THEN "returned" ELSE "threw",
                  [deleting EXCEPT !.dbTried = TRUE, !.dbError = ~ok])
  /\ UNCHANGED <<libBuild, clothingFiles, adding, cleaning, hookSide,
                 carouselVars>>

----------------------------------------------------------------------------
(* useCarousel *)

\* localStorage.getItem: null, or a string
Saved(v) == [present |-> TRUE, value |-> v]
NoSaved == [present |-> FALSE, value |-> ""]
\* what the item may hold when the page loads
SavedItems == {NoSaved, Saved(""), Saved("abc"), Saved("0"), Saved("2"),
               Saved("7")}

\* parseInt(saved, 10) on the strings above and on index.toString(); nan:
\* the result is NaN
parseInt(str) ==
  IF \E i \in 0..9 : ToString(i) = str
  THEN [nan |-> FALSE, value |-> CHOOSE i \in 0..9 : ToString(i) = str]
  ELSE [nan |-> TRUE, value |-> 0]

Max(a, b) == IF a >= b THEN a ELSE b
Min(a, b) == IF a <= b THEN a ELSE b
\* a % b of JavaScript, b > 0: the sign of a
JsRem(a, b) == IF a >= 0 THEN a % b ELSE 0 - ((0 - a) % b)

CarouselIdle ==
  /\ index = 0
  /\ itemsLength = 0
  /\ localStorageItem = NoSaved
  /\ mounts = 0

\* the initializer of the index state
InitialIndex(saved, initialLength) ==
  IF saved.present /\ saved.value # ""
  THEN LET parsedIndex == parseInt(saved.value)
       IN  IF ~parsedIndex.nan /\ initialLength > 0
           THEN Max(0, Min(parsedIndex.value, initialLength - 1))
           ELSE 0
  ELSE 0

\* the effect on [itemsLength, index]
AdjustIndex(i, length) ==
  IF length = 0 THEN 0
  ELSE IF i >= length THEN Max(0, length - 1)
  ELSE i

\* localStorage.setItem(storageKeyFull, i.toString()) in its try block
SetItem(i, ok) == IF ok THEN Saved(ToString(i)) ELSE localStorageItem

\* useCarousel(initialLength, storageKey) mounts: the state initializers,
\* then both effects until they settle
useCarousel(initialLength, ok) ==
  /\ mounts < MaxMounts
  /\ mounts' = mounts + 1
  /\ itemsLength' = initialLength
  /\ index' = AdjustIndex(InitialIndex(localStorageItem, initialLength),
                          initialLength)
  /\ localStorageItem' = SetItem(index', ok)
  /\ UNCHANGED <<hookSide, storeVars>>

\* the clamp of setIndex, and the arguments next and prev pass to it
ClampedIndex(newIndex, length) == Max(0, Min(newIndex, length - 1))
NextIndex(i, length) == JsRem(i + 1, length)
PrevIndex(i, length) == JsRem(i - 1 + length, length)

\* setIndex without the clamp
setIndexUnclamped(newIndex, ok) ==
  /\ mounts > 0
  /\ IF itemsLength = 0
     THEN /\ index' = 0
          /\ UNCHANGED localStorageItem
     ELSE /\ index' = AdjustIndex(newIndex, itemsLength)
          /\ localStorageItem' = SetItem(index', ok)
  /\ UNCHANGED <<itemsLength, mounts, hookSide, storeVars>>

\* setIndex(newIndex), then the effects
setIndex(newIndex, ok) ==
  /\ mounts > 0
  /\ IF itemsLength = 0
     THEN /\ index' = 0
          /\ UNCHANGED localStorageItem
     ELSE LET clampedIndex == ClampedIndex(newIndex, itemsLength)
          IN  /\ index' = AdjustIndex(clampedIndex, itemsLength)
              /\ localStorageItem' = SetItem(index', ok)
  /\ UNCHANGED <<itemsLength, mounts, hookSide, storeVars>>

next(ok) ==
  /\ mounts > 0
  /\ IF itemsLength = 0 THEN UNCHANGED vars
     ELSE setIndex(NextIndex(index, itemsLength), ok)

prev(ok) ==
  /\ mounts > 0
  /\ IF itemsLength = 0 THEN UNCHANGED vars
     ELSE setIndex(PrevIndex(index, itemsLength), ok)

\* random: Math.random(), as the index Math.floor(random * itemsLength)
setRandom(randomIndex, ok) ==
  /\ mounts > 0
  /\ IF itemsLength = 0 THEN UNCHANGED vars
     ELSE /\ randomIndex \in 0..(itemsLength - 1)
          /\ setIndex(randomIndex, ok)

\* setLength(newLength), then the effects: the index is adjusted, and
\* written when it changed
setLength(newLength, ok) ==
  /\ mounts > 0
  /\ itemsLength' = newLength
  /\ index' = AdjustIndex(index, newLength)
  /\ localStorageItem' = IF index' # index THEN SetItem(index', ok)
                         ELSE localStorageItem
  /\ UNCHANGED <<mounts, hookSide, storeVars>>

----------------------------------------------------------------------------
HookInit ==
  /\ variant \in Variants
  /\ apiKey \in BOOLEAN
  /\ generatedImage = Null
  /\ isGenerating = FALSE
  /\ error = NoError
  /\ isComposite = FALSE
  /\ inFlightRef = FALSE
  /\ cacheRef = EmptyMap
  /\ outfitCache = EmptyMap
  /\ nanoCache = EmptyMap
  /\ transferCache = EmptyMap
  /\ durable = EmptyMap
  /\ durableBody = EmptyMap
  /\ nanoOccasion = EmptyMap
  /\ objectUrls = {}
  /\ callTimestamps = <<>>
  /\ lastCallTime = 0
  /\ admitted = <<>>
  /\ now = StartNow
  /\ ticks = 0
  /\ calls = <<>>
  /\ started = 0
  /\ done = DoneRecord(NewCall(0, "none", "", "", NoId, NoId, NoId,
                               DEFAULT_BODY_PATH, ""), "none",
                       Null, NoError)
  /\ served = EmptyMap

Init == HookInit /\ libBuild = "first" /\ StoreIdle /\ CarouselIdle

Next ==
  \/ \E top \in Tops, bottom \in Bottoms, m \in Models, shoes \in Shoes :
       GenerateOutfit(top, bottom, m, shoes)
  \/ \E occasion \in Occasions, m \in Models : GenerateNanoOutfit(occasion, m)
  \/ \E file \in Files, m \in Models, created \in BOOLEAN :
       GenerateOutfitTransfer(file, m, created)
  \/ \E i \in 1..Len(calls), queryOk \in BOOLEAN : GetCachedCompositeReturns(i, queryOk)
  \/ \E i \in 1..Len(calls), r \in {"ok", "uploadFails", "saveFails"} :
       MemoryHitSaveReturns(i, r)
  \/ \E i \in 1..Len(calls), ok \in BOOLEAN : PreprocessReturns(i, ok)
  \/ \E i \in 1..Len(calls), out \in ProviderOutcomes :
       ProviderReturns(i, out)
  \/ \E i \in 1..Len(calls), ok \in BOOLEAN : FetchReturns(i, ok)
  \/ \E i \in 1..Len(calls) : BackoffElapses(i)
  \/ \E i \in 1..Len(calls), r \in {"ok", "uploadFails", "saveFails"} :
       StoreReturns(i, r)
  \/ \E i \in 1..Len(calls), r \in {"ok", "fail", "throw"} :
       CreateCompositeReturns(i, r)
  \/ ClearCache
  \/ Tick

Spec == Init /\ [][Next]_vars

----------------------------------------------------------------------------
(* The retry loop under every kind of provider error: one generate call,
   with the API key set *)

RetryInit == Init /\ apiKey

FirstCall == started < MaxRetryCalls

RetryNext ==
  \/ \E top \in Tops, bottom \in Bottoms, m \in Models, shoes \in Shoes :
       FirstCall /\ OutfitCall(top, bottom, m, shoes)
  \/ \E occasion \in Occasions, m \in Models :
       FirstCall /\ NanoCall(occasion, m)
  \/ \E file \in Files, m \in Models :
       FirstCall /\ TransferCall(file, m, TRUE)
  \/ \E i \in 1..Len(calls), queryOk \in BOOLEAN :
       GetCachedCompositeReturns(i, queryOk)
  \/ \E i \in 1..Len(calls), ok \in BOOLEAN : PreprocessReturns(i, ok)
  \/ \E i \in 1..Len(calls), out \in RetryOutcomes : ProviderReturns(i, out)
  \/ \E i \in 1..Len(calls), ok \in BOOLEAN : FetchReturns(i, ok)
  \/ \E i \in 1..Len(calls) : BackoffElapses(i)
  \/ \E i \in 1..Len(calls), r \in {"ok", "uploadFails", "saveFails"} :
       StoreReturns(i, r)
  \/ \E i \in 1..Len(calls), r \in {"ok", "fail", "throw"} :
       CreateCompositeReturns(i, r)

RetrySpec == RetryInit /\ [][RetryNext]_vars

----------------------------------------------------------------------------
(* The hook with the operation that clears the displayed image *)

ViewNext == Next \/ ClearGeneratedImage

ViewSpec == Init /\ [][ViewNext]_vars

----------------------------------------------------------------------------
(* The hook when every await settles: the provider, the durable store, the
   image loader and the composer return or throw, and every timer fires *)

AwaitSettles ==
  \/ \E i \in 1..Len(calls), queryOk \in BOOLEAN :
       GetCachedCompositeReturns(i, queryOk)
  \/ \E i \in 1..Len(calls), r \in {"ok", "uploadFails", "saveFails"} :
       MemoryHitSaveReturns(i, r)
  \/ \E i \in 1..Len(calls), ok \in BOOLEAN : PreprocessReturns(i, ok)
  \/ \E i \in 1..Len(calls), out \in ProviderOutcomes :
       ProviderReturns(i, out)
  \/ \E i \in 1..Len(calls), ok \in BOOLEAN : FetchReturns(i, ok)
  \/ \E i \in 1..Len(calls) : BackoffElapses(i)
  \/ \E i \in 1..Len(calls), r \in {"ok", "uploadFails", "saveFails"} :
       StoreReturns(i, r)
  \/ \E i \in 1..Len(calls), r \in {"ok", "fail", "throw"} :
       CreateCompositeReturns(i, r)

LiveSpec == Init /\ [][Next]_vars /\ WF_vars(AwaitSettles)

----------------------------------------------------------------------------
(* lib/supabase under calls of addClothingItem, deleteClothingItem and
   cleanupOrphanedStorageFiles that interleave at their awaits *)

\* the page is loaded with either copy of lib/supabase
StoreInit ==
  /\ HookInit
  /\ variant = "sdk"
  /\ apiKey
  /\ libBuild \in LibBuilds
  /\ StoreIdle
  /\ CarouselIdle

StoreNext ==
  \/ \E ok \in BOOLEAN : AddUploadReturns(ok)
  \/ \E ok \in BOOLEAN : AddInsertReturns(ok)
  \/ \E ok \in BOOLEAN : CleanupSelectReturns(ok)
  \/ \E ok \in BOOLEAN : CleanupListReturns(ok)
  \/ \E f \in clothingFiles \cup cleaning.orphanedFiles, ok \in BOOLEAN :
       CleanupDeleteReturns(f, ok)
  \/ \E id \in 1..MaxAdds, ok \in BOOLEAN : DeleteFetchReturns(id, ok)
  \/ \E ok \in BOOLEAN : DeleteStorageReturns(ok)
  \/ \E ok \in BOOLEAN : DeleteDbReturns(ok)

StoreSpec == StoreInit /\ [][StoreNext]_vars

----------------------------------------------------------------------------
(* One carousel: mounts with any initial length and any stored item, and
   the operations the hook returns *)

CarouselInit ==
  /\ libBuild = "first"
  /\ StoreIdle
  /\ index = 0
  /\ itemsLength = 0
  /\ localStorageItem \in SavedItems
  /\ mounts = 0
  /\ HookInit
  /\ variant = "sdk"
  /\ apiKey

CarouselNext ==
  \/ \E initialLength \in 0..MaxLength, ok \in BOOLEAN :
       useCarousel(initialLength, ok)
  \/ \E ok \in BOOLEAN : next(ok)
  \/ \E ok \in BOOLEAN : prev(ok)
  \/ \E randomIndex \in 0..MaxLength, ok \in BOOLEAN :
       setRandom(randomIndex, ok)
  \/ \E newIndex \in (0 - 1)..(MaxLength + 1), ok \in BOOLEAN : setIndex(newIndex, ok)
  \/ \E newLength \in 0..MaxLength, ok \in BOOLEAN : setLength(newLength, ok)

CarouselSpec == CarouselInit /\ [][CarouselNext]_vars

----------------------------------------------------------------------------
(* The cache keys under requests that differ in the model image or in the
   occasion only: one call after the other, with the API key set *)

\* modelImageUrl: none (the default body) or the user's own model image
KeyModels == {NoPath, "me.png"}
\* two occasion texts of the same length
KeyOccasions == {"gym", "spa"}

KeyInit == Init /\ apiKey

NextCall == started < MaxKeyCalls /\ calls = <<>>

KeyNext ==
  \/ \E top \in Tops, bottom \in Bottoms, m \in KeyModels, shoes \in Shoes :
       NextCall /\ OutfitCall(top, bottom, m, shoes)
  \/ \E occasion \in KeyOccasions, m \in KeyModels :
       NextCall /\ NanoCall(occasion, m)
  \/ \E i \in 1..Len(calls), queryOk \in BOOLEAN :
       GetCachedCompositeReturns(i, queryOk)
  \/ \E i \in 1..Len(calls), r \in {"ok", "uploadFails", "saveFails"} :
       MemoryHitSaveReturns(i, r)
  \/ \E i \in 1..Len(calls), ok \in BOOLEAN : PreprocessReturns(i, ok)
  \/ \E i \in 1..Len(calls), out \in ProviderOutcomes :
       ProviderReturns(i, out)
  \/ \E i \in 1..Len(calls), ok \in BOOLEAN : FetchReturns(i, ok)
  \/ \E i \in 1..Len(calls) : BackoffElapses(i)
  \/ \E i \in 1..Len(calls), r \in {"ok", "uploadFails", "saveFails"} :
       StoreReturns(i, r)
  \/ \E i \in 1..Len(calls), r \in {"ok", "fail", "throw"} :
       CreateCompositeReturns(i, r)
  \/ Tick

KeySpec == KeyInit /\ [][KeyNext]_vars

----------------------------------------------------------------------------
(* The limiter under many calls: the SDK build without an API key, where
   every admitted call ends at once with the missing-key failure. The user
   presses the generate button, waits, and presses again. *)

\* the waits between two presses of the generate button, in ms: none, longer
\* than the cooldown, longer than half a window
Gaps == {0, 3000, 33000}

LimInit == Init /\ variant = "sdk" /\ ~apiKey

\* a press of the button: the first, or one after a wait
LimGenerate(occasion, modelImageUrl) ==
  /\ started < MaxLimCalls
  /\ started = ticks
  /\ NanoCall(occasion, modelImageUrl)

\* ms milliseconds pass after a press
Elapse(ms) ==
  /\ ticks < started
  /\ now + ms <= StartNow + LimHorizonMs
  /\ ticks' = ticks + 1
  /\ now' = now + ms
  /\ UNCHANGED <<hookVars, svcVars, limVars, envVars, objectUrls, calls,
                 started, done, served>>

LimNext ==
  \/ \E occasion \in Occasions, m \in Models : LimGenerate(occasion, m)
  \/ \E ms \in Gaps : Elapse(ms)

LimSpec == LimInit /\ [][LimNext]_vars

----------------------------------------------------------------------------
(* Properties *)

\* a generate call is issued in this step
Issued == started' = started + 1
\* ... and has returned in the same step (it never awaited)
IssuedReturned == Issued /\ done'.n = started'
\* the hook key of the call issued in this step
IssuedKey ==
  IF done'.n = started' THEN done'.hkey ELSE calls'[Len(calls')].hkey
InProviderStage(cs) == {i \in 1..Len(cs) : cs[i].pc \in {"provider", "backoff"}}

\* C1: a generate call issued while a call with the same hook key is
\* pending returns at the guard: it records no limiter call, invokes no
\* provider, and the pending call stays the only one in the pipeline.
C1_SingleFlight ==
  [][/\ Len(calls') <= 1
     /\ (Issued /\ \E i \in 1..Len(calls) : calls[i].hkey = IssuedKey)
          => /\ done'.n = started'
             /\ done'.outcome = "rejected"
             /\ done'.provCalls = 0
             /\ UNCHANGED <<callTimestamps, lastCallTime, calls>>]_vars

\* a call was rejected while a call of its key awaits the provider
C1_Witness ==
  /\ done.outcome = "rejected"
  /\ Len(calls) = 1
  /\ calls[1].hkey = done.hkey
  /\ calls[1].pc = "provider"

\* C2: whenever no generate call is running the in-flight guard is
\* released, whichever way the last call left the hook.
C2_GuardReleased == (calls = <<>>) => ~inFlightRef

\* C3: once a generate call has got an image reference for a service key,
\* every later call with that key gets the same reference, and without a
\* provider call, as long as the caches were not cleared.
C3_SameReference ==
  (/\ done.outcome \in {"success", "hookHit"}
   /\ Has(served, done.skey)
   /\ served[done.skey].n < done.n)
    => /\ done.imageUrl = served[done.skey].url
       /\ done.provCalls = 0

\* C4 as stated: the guard held for a pending call only rejects calls of
\* that call's key.
C4_GuardPerKey ==
  [][(IssuedReturned /\ calls # <<>> /\ done'.outcome = "rejected")
       => \E i \in 1..Len(calls) : calls[i].hkey = done'.hkey]_vars

\* C4, amended: the guard is one flag for the hook. While a generate call
\* is pending, a call issued for any key, the same or another, returns at
\* the guard without a limiter call, and at most one call is in the
\* provider stage.
C4_OneGuardForAllKeys ==
  [][/\ Cardinality(InProviderStage(calls')) <= 1
     /\ (Issued /\ calls # <<>>)
          => /\ IssuedReturned
             /\ done'.outcome = "rejected"
             /\ UNCHANGED <<limVars, calls>>]_vars

\* a call was rejected while a call of another key is in the provider stage
C4_Witness ==
  /\ done.outcome = "rejected"
  /\ Len(calls) = 1
  /\ calls[1].hkey # done.hkey
  /\ InProviderStage(calls) = {1}

\* the service's durable or memory tier holds the image d asks for
ServiceCached(d) ==
  CASE d.op = "outfit" ->
         \/ HasIds(d) /\ Has(durable, IdentityKey(d))
         \/ Has(outfitCache, d.skey)
    [] d.op = "nano" -> Has(nanoCache, d.skey)
    [] d.op = "transfer" -> Has(transferCache, d.skey)
    [] OTHER -> FALSE

\* C5: a generate call whose image is in the service's durable or memory
\* tier is never turned away by the in-flight guard or by the rate limiter
\* (a call whose image is still being produced by a pending call aside).
C5_CachedNeverTurnedAway ==
  [][(/\ IssuedReturned
      /\ ServiceCached(done')
      /\ \A i \in 1..Len(calls) : calls[i].skey # done'.skey)
       => done'.outcome \notin {"rejected", "rateLimited"}]_vars

AllTimeout(errs) == \A j \in 1..Len(errs) : isTimeoutError(errs[j])
AllRetryable(errs) == \A j \in 1..Len(errs) : isRetryableError(errs[j])
\* the pending generate call leaves the await pc in this step
Settles(pc) ==
  /\ Len(calls) = 1
  /\ calls[1].pc = pc
  /\ calls' = <<>> \/ calls'[1].pc # pc
\* the provider call of the pending generate call settles in this step
ProviderSettles == Settles("provider")
\* that call after the step: still pending, or as it left the hook
After == IF calls' = <<>> THEN done' ELSE calls'[1]
\* the memory cache of d's operation holds d's key
MemoryHas(d, outfits, nanos, transfers) ==
  CASE d.op = "outfit" -> Has(outfits, d.skey)
    [] d.op = "nano" -> Has(nanos, d.skey)
    [] OTHER -> Has(transfers, d.skey)

\* C6: in the Gemini builds, when the provider calls of a generate call
\* fail k times (k = 0, 1, 2) with Timeout and the next one returns an
\* image, each Timeout is followed by another attempt and the image arrives
\* on provider call k+1, is put in the memory cache under the call's key
\* (unless clearCache() ran while the call was pending), and makes the call
\* succeed.
C6_TimeoutsThenImage ==
  [][(/\ variant \in {"sdk", "proxy"}
      /\ ProviderSettles
      /\ After.last \in {"image", "error"}
      /\ AllTimeout(After.errs)
      /\ Len(After.errs) < maxAttempts)
       => IF After.last = "error"
          THEN calls' # <<>> /\ calls'[1].pc = "backoff"
          ELSE /\ After.provCalls = Len(After.errs) + 1
               /\ ~calls[1].detached
                    => MemoryHas(After, outfitCache', nanoCache',
                                 transferCache')
               /\ calls' = <<>> => done'.outcome = "success"]_vars

\* C7: a generate call makes at most maxAttempts provider calls; once a
\* provider call failed with an error that is neither Quota nor Timeout, or
\* a third one failed, the call neither invokes the provider nor backs off
\* again.
C7_AtMostMaxAttempts ==
  /\ done.provCalls <= maxAttempts
  /\ \A i \in 1..Len(calls) :
       /\ calls[i].provCalls <= maxAttempts
       /\ calls[i].provCalls <= Len(calls[i].errs) + 1
       /\ calls[i].pc \in {"provider", "backoff"}
            => /\ Len(calls[i].errs) < maxAttempts
               /\ AllRetryable(calls[i].errs)

\* a call ended on its third failed provider call
C7_Witness ==
  /\ done.provCalls = maxAttempts
  /\ Len(done.errs) = maxAttempts
  /\ done.last = "error"

\* C8: in every build, a provider call that fails with Quota or Timeout
\* before the last attempt is followed by a backoff and another attempt.
C8_RetryableRetried ==
  [][(/\ ProviderSettles
      /\ After.last = "error"
      /\ Len(After.errs) < maxAttempts
      /\ isRetryableError(After.errs[Len(After.errs)]))
       => /\ calls' # <<>>
          /\ calls'[1].pc = "backoff"
          /\ calls'[1].waitMs > 0]_vars

\* a generate call leaves the hook in this step
Leaves == done' # done /\ done'.outcome \in {"success", "fallback", "error"}
\* the provider calls of d all failed, with Quota or Timeout only
GaveUpRetryable(d) ==
  d.errs # <<>> /\ d.last = "error" /\ AllRetryable(d.errs)

\* C9 as stated: a generate call, of any operation, whose provider calls
\* all fail with Quota or Timeout only ends with the composite image shown
\* and marked as composite, unless the composite fallback fails.
C9_FallbackForEveryOperation ==
  [][(Leaves /\ GaveUpRetryable(done') /\ done'.fb \notin {"fail", "throw"})
       => /\ done'.outcome = "fallback"
          /\ generatedImage' = CompositeUrl(done'.n)
          /\ isComposite']_vars

\* C9, amended: only generateOutfit falls back. When its provider calls
\* all fail with Quota or Timeout only, createComposite is called, and if
\* it succeeds the composite image is shown, marked and cached as
\* composite, with the notice as error. generateNanoOutfit and
\* generateOutfitTransfer call no fallback and end in their error.
C9_FallbackForOutfit ==
  [][(Leaves /\ GaveUpRetryable(done'))
       => IF done'.op = "outfit"
          THEN /\ done'.fb \in {"ok", "fail", "throw"}
               /\ done'.fb = "ok"
                    => /\ done'.outcome = "fallback"
                       /\ generatedImage' = CompositeUrl(done'.n)
                       /\ isComposite'
                       /\ error' = MsgComposite
                       /\ cacheRef'[done'.hkey] =
                            [url |-> CompositeUrl(done'.n), isComposite |-> TRUE]
          ELSE /\ done'.fb = "none"
               /\ done'.outcome = "error"
               /\ generatedImage' = Null
               /\ ~isComposite'
               /\ error' = MsgFailed(done'.op)]_vars

\* generateOutfit ended with the composite after three failed provider calls
C9_Witness ==
  /\ done.op = "outfit"
  /\ GaveUpRetryable(done)
  /\ Len(done.errs) = maxAttempts
  /\ done.fb = "ok"
  /\ done.outcome = "fallback"
  /\ generatedImage = CompositeUrl(done.n)
  /\ isComposite

\* C10: when the provider calls of a generate call all fail and the
\* composite fallback fails too, the error the hook shows is the service's
\* message for the last provider error.
C10_ProviderErrorSurfaced ==
  [][(/\ Leaves
      /\ done'.errs # <<>>
      /\ done'.last = "error"
      /\ done'.fb \in {"fail", "throw"})
       => /\ done'.outcome = "error"
          /\ error' = done'.svcError]_vars

\* C11 as stated: the composite fallback runs only for a generate call
\* whose provider attempts were exhausted: its provider calls all failed,
\* the last one with Quota or Timeout.
C11_FallbackOnlyWhenExhausted ==
  done.fb \in {"ok", "fail", "throw"} => GaveUpRetryable(done)

\* C11, amended: the composite fallback runs exactly when the service call
\* of generateOutfit returns a result without success, whatever the cause
\* (attempts exhausted, an error that is not retried, a missing API key, a
\* response without image). It never runs for another operation, after a
\* successful result, a service call that rejected, a rate-limit denial, a
\* hook cache hit or a return at the guard.
C11_FallbackOnEveryFailedResult ==
  /\ \A i \in 1..Len(calls) :
       calls[i].fb # "none"
         => /\ calls[i].pc = "fallback"
            /\ calls[i].op = "outfit"
            /\ calls[i].svcError # NoError
            /\ ~calls[i].threw
  /\ done.fb # "none"
       => /\ done.op = "outfit"
          /\ done.svcError # NoError
          /\ ~done.threw
          /\ done.outcome \in {"fallback", "error"}
  /\ (done.op = "outfit" /\ done.outcome = "error" /\ done.fb = "none")
       => done.threw

\* the composite was shown after a provider error that is not retried
C11_Witness ==
  /\ done.fb = "ok"
  /\ Len(done.errs) = 1
  /\ ~isRetryableError(done.errs[1])
  /\ done.outcome = "fallback"

\* C12: no collaborator failure makes the service call of a generate call
\* reject: the service always settles with a result.
C12_ServiceNeverRejects == ~done.threw

\* the durable lookup of the pending generate call settles in this step
LookupSettles == Settles("durable")
\* upload and save of its new image settle in this step
StoreSettles == Settles("store")
\* the image of its provider call arrives in this step
ImageArrives ==
  /\ Settles(IF variant = "openai" THEN "fetch" ELSE "provider")
  /\ After.last = "image"
MemoryCaches == <<outfitCache, nanoCache, transferCache>>

\* C13: a failure of the durable store never fails a generation whose
\* provider call succeeded. A lookup that fails lets the call go on; when
\* the image arrives it is in the memory cache under the call's key (the
\* cache as it is unless clearCache() ran while the call was pending); and
\* when upload or save fails the call succeeds with the in-memory data URL
\* and the memory caches stay as they are.
C13_DurableFailureNotFatal ==
  [][/\ LookupSettles => (calls' # <<>> \/ done'.outcome = "success")
     /\ (ImageArrives /\ calls' # <<>>)
          => /\ calls'[1].pc = "store"
             /\ ~calls[1].detached
                  => /\ Has(outfitCache', calls'[1].skey)
                     /\ outfitCache'[calls'[1].skey] = calls'[1].dataUrl
     /\ StoreSettles
          => /\ calls' = <<>>
             /\ done'.outcome = "success"
             /\ done'.stored # "ok" => done'.imageUrl = calls[1].dataUrl
             /\ UNCHANGED MemoryCaches]_vars

\* a stored generation whose save failed returned its data URL, which the
\* memory cache holds
C13_Witness ==
  /\ done.outcome = "success"
  /\ done.last = "image"
  /\ done.stored = "saveFails"
  /\ done.imageUrl = DataUrl(done.n)
  /\ Has(outfitCache, done.skey)
  /\ outfitCache[done.skey] = done.imageUrl

C15_DenialChangesNothing ==
  [][(IssuedReturned /\ done'.outcome = "rateLimited")
       => /\ error' = canMakeCall(callTimestamps, lastCallTime, now).reason
          /\ error' # NoError
          /\ generatedImage' = Null
          /\ done'.provCalls = 0
          /\ lastCallTime' = lastCallTime
          /\ callTimestamps' = PurgeOld(callTimestamps, now)
          /\ UNCHANGED <<svcVars, cacheRef, calls, isGenerating>>]_vars

\* a call was denied during the cooldown of the call before it
C15_Witness ==
  /\ done.outcome = "rateLimited"
  /\ error = "cooldown"
  /\ Len(callTimestamps) = 1
  /\ lastCallTime = callTimestamps[1]

\* C16: among the admissions so far no two successive ones are less than
\* cooldownMs apart, and no interval of windowMs that starts at an
\* admission holds more than maxCalls of them.
C16_RateLimitInvariant ==
  /\ \A i \in 2..Len(admitted) : admitted[i] - admitted[i - 1] >= cooldownMs
  /\ \A i \in 1..Len(admitted) :
       Cardinality({j \in i..Len(admitted) :
                      admitted[j] < admitted[i] + windowMs}) <= maxCalls

\* an eleventh call was admitted once the oldest ones had left the window
C16_Witness ==
  /\ Len(admitted) = maxCalls + 1
  /\ admitted[maxCalls + 1] - admitted[1] < 2 * windowMs
  /\ done.outcome = "error"

\* ten calls were admitted, each 3 s after the one before, and the tenth
\* was admitted just now
TenSpaced ==
  /\ Len(admitted) = maxCalls
  /\ \A i \in 2..Len(admitted) : admitted[i] - admitted[i - 1] = 3000
  /\ now = admitted[maxCalls]

Checked == Issued /\ done'.outcome \notin {"rejected", "hookHit", "threw"}

\* C18: after every admission check the limiter holds no timestamp older
\* than now - windowMs, only the dropped ones are gone, and it never holds
\* more than maxCalls timestamps.
C18_OldTimestampsPurged ==
  [][Checked
       => /\ \A k \in 1..Len(callTimestamps') :
               callTimestamps'[k] >= now - windowMs
          /\ \A k \in 1..Len(callTimestamps) :
               callTimestamps[k] >= now - windowMs
                 => \E j \in 1..Len(callTimestamps') :
                      callTimestamps'[j] = callTimestamps[k]
          /\ Len(callTimestamps') <= maxCalls]_vars

\* a check dropped timestamps that had left the window
C18_Witness ==
  /\ Len(admitted) > maxCalls
  /\ Len(callTimestamps) < Len(admitted)
  /\ callTimestamps[1] > admitted[1]

\* the generate call issued in this step goes on to the service call
ReachesService ==
  /\ Issued
  /\ \/ Len(calls') = Len(calls) + 1
     \/ /\ done'.n = started'
        /\ done'.outcome \in {"success", "fallback", "error"}

\* C19: a generate call that goes on to the service call records exactly
\* one call in the limiter, in the step in which it is issued and so
\* before any provider call beyond the one that step starts; a generate
\* call that does not go on records none; and no later step of a call (a
\* retry, a cache hit of the service, a failure, a return) changes what
\* the limiter recorded.
C19_OneSlotPerRequest ==
  [][/\ ReachesService
          => /\ callTimestamps' = Append(PurgeOld(callTimestamps, now), now)
             /\ lastCallTime' = now
             /\ After.n = started' /\ After.provCalls <= 1
     /\ (Issued /\ ~ReachesService)
          => /\ lastCallTime' = lastCallTime
             /\ callTimestamps' \in {callTimestamps,
                                     PurgeOld(callTimestamps, now)}
     /\ ~Issued => UNCHANGED <<callTimestamps, lastCallTime>>]_vars

\* a call that retried twice left one recorded call in the limiter
C19_Witness ==
  /\ started = 1
  /\ done.n = 1
  /\ done.provCalls = maxAttempts
  /\ Len(done.errs) >= 2
  /\ Len(callTimestamps) = 1
  /\ lastCallTime = callTimestamps[1]

\* C20: in the Gemini builds, when the first provider call of a generate
\* call fails with Timeout, the wait before the first retry is shorter than
\* the wait the build computes for a Quota error on that attempt.
C20_QuotaWaitsLonger ==
  [][(/\ variant \in {"sdk", "proxy"}
      /\ ProviderSettles
      /\ After.last = "error"
      /\ Len(After.errs) = 1
      /\ isTimeoutError(After.errs[1])
      /\ ~isQuotaError(After.errs[1]))
       => /\ calls' # <<>>
          /\ calls'[1].pc = "backoff"
          /\ calls'[1].attempt = 1
          /\ calls'[1].waitMs < BackoffMs(variant, ErrQuota, 1)]_vars

\* the pending call backs off after the provider call that fails in this step
BacksOff == ProviderSettles /\ calls' # <<>> /\ calls'[1].pc = "backoff"
\* the error that provider call rejected with
Rejection == After.errs[Len(After.errs)]
HasRetryAfter(err) == err.retryDelay # NoRetryInfo
BothKinds(err) == isQuotaError(err) /\ isTimeoutError(err)

C22_RetryAfterHonoured ==
  [][(BacksOff /\ HasRetryAfter(Rejection))
       => calls'[1].waitMs
            = Rejection.retryDelay.sec * 1000
                + FracMs(Rejection.retryDelay.frac)]_vars

\* C23: no error a provider call rejects with is both a Quota and a
\* Timeout error, so a call that gives up in the SDK build on the error it
\* last backed off for reports the kind its wait was computed for: the
\* quota message after the quota wait, the timeout message after the
\* timeout wait.
C23_OneKindPerError ==
  [][(ProviderSettles /\ After.last = "error")
       => /\ ~BothKinds(Rejection)
          /\ (/\ variant = "sdk"
              /\ ~BacksOff
              /\ Len(After.errs) = maxAttempts
              /\ After.errs[2] = After.errs[3])
               => /\ After.svcError = MsgQuota => calls[1].waitMs = 90000
                  /\ After.svcError \in {MsgTimeout, MsgTimeoutOutfit}
                       => calls[1].waitMs = 7500]_vars

\* C24: in the Gemini builds the error of the result of a generate call
\* that gives up on a provider error is chosen by the kind of that error:
\* the wait-60-seconds message for Quota, the request-timeout message for
\* Timeout, and the backend message for any other error.
C24_MessageByKind ==
  [][(/\ variant \in {"sdk", "proxy"}
      /\ ProviderSettles
      /\ After.last = "error"
      /\ ~BacksOff
      /\ ~BothKinds(Rejection))
       => After.svcError
            = (IF isQuotaError(Rejection) THEN MsgQuota
               ELSE IF isTimeoutError(Rejection)
               THEN (IF After.op = "outfit" THEN MsgTimeoutOutfit
                     ELSE MsgTimeout)
               ELSE "Gemini API error. " \o Rejection.message)]_vars

\* C25: every object URL that exists belongs to a generateOutfitTransfer
\* call that is still pending: the URL of a call that has returned, by
\* whichever path, is revoked, and a call rejected at the guard has none.
C25_ObjectUrlsRevoked ==
  /\ \A u \in objectUrls :
       \E i \in 1..Len(calls) : calls[i].n = u /\ calls[i].op = "transfer"
  /\ done.n \notin objectUrls

\* a transfer call that invoked the provider and failed left no object URL
C25_Witness ==
  /\ done.op = "transfer"
  /\ done.outcome = "error"
  /\ done.provCalls >= 1
  /\ calls = <<>>
  /\ objectUrls = {}

\* C26: a step of clearCache() leaves every in-memory cache of the
\* generator empty, so that getCacheSize() is 0 after it, and leaves the
\* rows of the durable store as they are.
C26_ClearEmptiesMemory ==
  [][ClearCache
       => /\ getCacheSize(variant, outfitCache', nanoCache', transferCache') = 0
          /\ outfitCache' = EmptyMap
          /\ nanoCache' = EmptyMap
          /\ transferCache' = EmptyMap
          /\ durable' = durable]_vars

\* the memory caches are empty after a generation whose image was cached
\* and stored; the stored row is still there
C26_Witness ==
  /\ done.outcome = "success"
  /\ done.last = "image"
  /\ done.stored = "ok"
  /\ getCacheSize(variant, outfitCache, nanoCache, transferCache) = 0
  /\ Has(durable, IdentityKey(done))
  /\ durable[IdentityKey(done)] = done.imageUrl

\* C27: the image generateOutfit returns from the durable store for a
\* request with model image M was generated from M.
C27_ImageOfSameModel ==
  [][(/\ Settles("durable")
      /\ calls[1].op = "outfit"
      /\ calls' = <<>>
      /\ done'.outcome = "success"
      /\ done'.provCalls = 0)
       => /\ Has(durableBody, IdentityKey(calls[1]))
          /\ durableBody[IdentityKey(calls[1])] = calls[1].body]_vars

\* C28: the image generateNanoOutfit returns from the service's memory
\* cache for occasion A was generated for occasion A.
C28_ImageOfSameOccasion ==
  [][(/\ Issued
      /\ done'.n = started'
      /\ done'.op = "nano"
      /\ done'.outcome = "success"
      /\ done'.provCalls = 0)
       => /\ Has(nanoOccasion, done'.skey)
          /\ nanoOccasion[done'.skey] = done'.occasion]_vars

\* C29: a generate call issued when the memory caches were cleared since
\* its key was served (the hook still holds the image served, no call is
\* pending, the limiter allows a call, no durable row exists for the
\* request) is not answered with the old image from the hook cache.
C29_RegeneratedAfterClear ==
  [][(/\ Issued
      /\ ~inFlightRef
      /\ served = EmptyMap
      /\ getCacheSize(variant, outfitCache, nanoCache, transferCache) = 0
      /\ Has(cacheRef, IssuedKey)
      /\ ~cacheRef[IssuedKey].isComposite
      /\ canMakeCall(callTimestamps, lastCallTime, now).allowed
      /\ HasIds(After) => ~Has(durable, IdentityKey(After)))
       => ~(done'.n = started' /\ done'.outcome = "hookHit")]_vars

\* an entry of m2 that m does not have
Grew(m, m2) == \E k \in DOMAIN m2 : k \notin DOMAIN m \/ m2[k] # m[k]

\* C30: a generate call that ends in the error state changes no cache tier
\* in the step in which it ends, and did not before: the memory caches and
\* the durable store only gain an entry in a step of a call that ends with
\* success (at once, or after uploading and saving the image, which never
\* fails the call), and the hook cache only gains an entry when a call ends
\* with success or with the composite.
C30_FailureCachesNothing ==
  [][/\ (done' # done /\ done'.outcome = "error")
          => UNCHANGED <<outfitCache, nanoCache, transferCache, durable,
                         cacheRef>>
     /\ (\/ Grew(outfitCache, outfitCache')
         \/ Grew(nanoCache, nanoCache')
         \/ Grew(transferCache, transferCache')
         \/ Grew(durable, durable'))
          => /\ Len(calls) = 1
             /\ calls' = <<>> => done'.outcome = "success"
             /\ calls' # <<>> => calls'[1].pc = "store"
     /\ (Settles("store") \/ Settles("memsave"))
          => calls' = <<>> /\ done'.outcome = "success"
     /\ Grew(cacheRef, cacheRef')
          => done' # done /\ done'.outcome \in {"success", "fallback"}]_vars

\* after a call that invoked the provider and failed, a call for the same
\* service key finds every cache tier empty and invokes the provider
C30_Witness ==
  /\ done.n = 1
  /\ done.outcome = "error"
  /\ done.provCalls >= 1
  /\ Len(calls) = 1
  /\ calls[1].n = 2
  /\ calls[1].skey = done.skey
  /\ calls[1].pc = "provider"
  /\ cacheRef = EmptyMap
  /\ durable = EmptyMap
  /\ getCacheSize(variant, outfitCache, nanoCache, transferCache) = 0

\* C31: a generate call issued while the in-flight guard is held returns in
\* the same step and changes nothing: generatedImage, error, isComposite,
\* isGenerating, the guard, the hook cache, the limiter, the service caches
\* and the pending calls are as before, and the rejected call is not among
\* the pending calls, then or later.
C31_RejectionChangesNothing ==
  [][/\ (Issued /\ inFlightRef)
          => /\ done'.n = started'
             /\ done'.outcome = "rejected"
             /\ done'.provCalls = 0
             /\ UNCHANGED <<hookVars, limVars, svcVars, objectUrls, calls>>
     /\ done'.outcome = "rejected"
          => \A i \in 1..Len(calls') : calls'[i].n # done'.n]_vars

\* a call was rejected while the call before it waits between two provider
\* attempts, the hook showing that a generation is running
C31_Witness ==
  /\ done.outcome = "rejected"
  /\ done.n = 2
  /\ Len(calls) = 1
  /\ calls[1].n = 1
  /\ calls[1].pc = "backoff"
  /\ isGenerating
  /\ inFlightRef

\* C32: while isGenerating is true the in-flight guard is held, and when
\* no generate call is pending isGenerating and the guard are both false.
C32_SpinnerAndGuard ==
  /\ isGenerating => inFlightRef
  /\ calls = <<>> => ~isGenerating /\ ~inFlightRef

\* C33: isComposite is true exactly when the image the hook shows was made
\* by the composite fallback; with isComposite true an image is shown.
C33_CompositeFlag ==
  /\ isComposite <=> generatedImage.kind = "composite"
  /\ isComposite => generatedImage # Null

\* call n has been issued and has left the hook
Ended(n) == started >= n /\ \A i \in 1..Len(calls) : calls[i].n # n

\* C34: every generate call that is issued ends, and once it has ended a
\* state follows in which isGenerating is false and the guard is released.
C34_EveryCallEnds ==
  \A n \in 1..MaxStarts :
    (started >= n) ~> (Ended(n) /\ ~isGenerating /\ ~inFlightRef)

\* the call of cleanupOrphanedStorageFiles returns in this step
CleanupReturns ==
  cleaning.pc # "idle" /\ cleaning'.pc = "idle" /\ cleaning'.result = "returned"

\* C35: when cleanupOrphanedStorageFiles returns, no row of clothing_items
\* points to a file it deleted, whatever addClothingItem did meanwhile.
C35_OnlyOrphansDeleted ==
  [][CleanupReturns
       => \A f \in cleaning'.deletedFiles :
            \A item \in clothingItems' : FileNameOf(item.image_url) # f]_vars

\* the call of deleteClothingItem ends in this step
DeleteEnds ==
  /\ deleting'.pc = "idle"
  /\ deleting.pc # "idle" \/ deleting'.runs > deleting.runs

\* C36: deleteClothingItem throws exactly when the select of the row or the
\* delete of the row failed; when deleteImage failed it still sends the
\* delete of the row, and with that delete done it returns normally with
\* the row gone.
C36_RowDeletedDespiteStorage ==
  [][DeleteEnds
       => LET d == deleting'
          IN  /\ d.result = "threw" <=> (d.fetchError \/ d.dbError)
              /\ d.storageError => d.dbTried
              /\ (d.storageError /\ ~d.dbError)
                   => /\ d.result = "returned"
                      /\ \A item \in clothingItems' : item.id # d.id]_vars


\* the OpenAI build's description calls of the pending call settle
DescriptionsSettle == variant = "openai" /\ Settles("prep")
\* the text-to-image call follows, the first and only one of the call
ImageCallFollows ==
  /\ calls' # <<>>
  /\ calls'[1].pc = "provider"
  /\ calls'[1].provCalls = 1
\* the description calls of a call are not made again once they settled
NotDescribedAgain ==
  (Len(calls) = 1 /\ calls[1].pc \in {"provider", "fetch", "store"})
     => (calls' = <<>> \/ calls'[1].n # calls[1].n \/ calls'[1].pc # "prep")

\* C37 (as stated): in the OpenAI build a failure of a vision-description
\* call never fails the request: whenever the description calls of a request
\* settle, the text-to-image call follows, exactly once
C37_DescriptionNeverFails ==
  [][DescriptionsSettle => ImageCallFollows]_vars

\* C37 (amended): in generateOutfit of the OpenAI build the text-to-image
\* call follows the descriptions whether they failed or not, a failed one
\* replaced by the placeholder "clothing item"; the descriptions are not
\* called again and the text-to-image call is made once and not retried.  In
\* generateOutfitTransfer a failed description ends the request with an
\* "OpenAI API error" result and no text-to-image call
C37_PlaceholderDescription ==
  [][/\ (DescriptionsSettle /\ calls[1].op = "outfit")
          => /\ ImageCallFollows
             /\ calls'[1].description \in {Described, ClothingItem}
     /\ (DescriptionsSettle /\ calls[1].op = "transfer")
          => \/ ImageCallFollows /\ calls'[1].description = Described
             \/ /\ After.provCalls = 0
                /\ After.svcError = "OpenAI API error: description failed"
     /\ variant = "openai" => NotDescribedAgain
     /\ (variant = "openai" /\ ProviderSettles)
          => /\ After.provCalls = 1
             /\ calls' = <<>> \/ calls'[1].pc \notin {"provider", "backoff"}]_vars

\* an OpenAI generateOutfit request whose description failed got its image
\* from the one text-to-image call
C37_Witness ==
  /\ variant = "openai"
  /\ Len(calls) = 1
  /\ calls[1].op = "outfit"
  /\ calls[1].description = ClothingItem
  /\ calls[1].pc = "fetch"
  /\ calls[1].last = "image"
  /\ calls[1].provCalls = 1


\* a step of next, of prev
NextStep == \E ok \in BOOLEAN : next(ok)
PrevStep == \E ok \in BOOLEAN : prev(ok)
\* the index prev() sets when the carousel shows i of length items
AfterPrev(i, length) ==
  AdjustIndex(ClampedIndex(PrevIndex(i, length), length), length)

\* C38: after any operation of a mounted carousel the index is 0 when the
\* length is 0 and within 0..length-1 otherwise; next moves one forward and
\* from the last item to the first, prev one back and from the first item to
\* the last, and prev after next shows the item shown before
C38_IndexInRange ==
  [][/\ mounts' > 0 =>
          /\ itemsLength' = 0 => index' = 0
          /\ itemsLength' > 0 => index' \in 0..(itemsLength' - 1)
     /\ (NextStep /\ itemsLength > 0) =>
          /\ index' = IF index = itemsLength - 1 THEN 0 ELSE index + 1
          /\ AfterPrev(index', itemsLength') = index
     /\ (PrevStep /\ itemsLength > 0) =>
          index' = IF index = 0 THEN itemsLength - 1 ELSE index - 1]_vars

\* a mounted carousel shows the last of several items and has stored its
\* index: next() wraps from here to the first item
C38_Witness ==
  /\ mounts > 0
  /\ itemsLength = 3
  /\ index = itemsLength - 1
  /\ localStorageItem = Saved(ToString(index))


\* the carousel is mounted again while the stored item is the index shown
Remounts ==
  /\ mounts > 0
  /\ mounts' = mounts + 1
  /\ itemsLength > 0
  /\ localStorageItem = Saved(ToString(index))
\* the items of a carousel mounted with length 0 load
ItemsLoad ==
  /\ mounts' = mounts
  /\ itemsLength = 0
  /\ itemsLength' > 0

\* C39: the stored index is restored on the next mount: a new mount over a
\* list of the same length shows the stored index and leaves the stored value;
\* a new mount with length 0 leaves the stored value; and when the items of a
\* carousel mounted with length 0 load, it shows the stored index (or the
\* last item, when the list is shorter)
C39_StoredIndexRestored ==
  [][/\ (Remounts /\ itemsLength' = itemsLength)
          => index' = index /\ localStorageItem' = localStorageItem
     /\ (Remounts /\ itemsLength' = 0)
          => localStorageItem' = localStorageItem
     /\ (ItemsLoad /\ ~parseInt(localStorageItem.value).nan)
          => index' = Min(parseInt(localStorageItem.value).value,
                          itemsLength' - 1)]_vars

====
